---- MODULE Spec2Model ----
(***************************************************************************)
(* A model of the Argyll Python SDK (sdks/python/src/argyll): the step     *)
(* server start-up with its registration retry loop (handlers.py,          *)
(* create_step_server) and the request handling of the running server      *)
(* (handle_step, _execute_with_recovery).                                  *)
(*                                                                         *)
(* The specifications share the variables:                                 *)
(*   Spec         one run of create_step_server, from the builder handed   *)
(*                to StepBuilder.start up to app.run or the raised error;  *)
(*   SpecServer   the Flask application once app.run has been reached;     *)
(*   SpecWebhook  the completion calls made on one AsyncContext;           *)
(*   SpecValidate _validate_step applied to a step with attributes;        *)
(*   SpecBuilder  StepBuilder / FlowBuilder objects, their mutators and    *)
(*                build();                                                 *)
(*   SpecEntry    build(), register() and start() called on a builder;     *)
(*   SpecKebab    Client.new_step and with_id: the step id of a builder;   *)
(*   SpecClient   Client(...) and its register/update/list calls;          *)
(*   SpecWorkers  POST /{step-id} requests handled by concurrent workers   *)
(*                of the running server;                                   *)
(*   SpecWire     Step.to_dict and Client._parse_step applied to a Step.   *)
(***************************************************************************)
EXTENDS Integers, Sequences, FiniteSets, TLC

VARIABLES
    env,          \* the environment variables of the process
    builder,      \* the StepBuilder handed to create_step_server
    step,         \* the Step built at handlers.py:107 (NoStep before)
    pc,           \* position of create_step_server
    attempt,      \* loop variable of the registration loop
    registered,   \* local variable `registered`
    calls,        \* engine calls made so far, in order
    slept,        \* arguments of the time.sleep calls made so far, in order
    raised,       \* class of the error create_step_server raised ("" = none)
    nonJsonIsNone,\* Flask build: get_json gives None for a non-JSON mimetype
    served,       \* number of POST /{step-id} requests answered
    panics,       \* number of handler errors recovered so far
    last,         \* the last POST /{step-id} exchange
    entry,        \* the builder method called: "start", "register", "build"
    lastHealth,   \* the last GET /health exchange
    handlerCalls, \* number of times the server has invoked the handler
    actx,         \* the AsyncContext completion calls are made on
    completions,  \* completion calls made so far, in order
    posts,        \* webhook POSTs issued so far, in order
    vstep,        \* the Step handed to _validate_step
    vresult,      \* what _validate_step did with it
    kind,         \* the class of the builder objects: "step" or "flow"
    heap,         \* the mutable collections (dicts, lists) allocated so far
    bs,           \* the builder objects created so far
    lastOp,       \* the last mutator call
    built,        \* what the last build() call did
    newName,      \* the name given to Client.new_step, as characters
    newId,        \* the _id of the builder made from it, as characters
    newOp,        \* how that _id was set: "new_step" or "with_id"
    flowPosts,    \* the POSTs FlowBuilder.start() has issued, in order
    flowStart,    \* what the FlowBuilder.start() call did
    clientArg,    \* the base_url argument of Client(...), as characters
    client,       \* the Client made from it
    requests,     \* the HTTP requests the client has issued, in order
    clientCalls,  \* the client calls made so far and how they ended
    srv,          \* what handle_step closes over: step_id, handler, Flask build
    workers,      \* the worker threads of the server, each with its locals
    latest,       \* the worker that took a request last (0 = none yet)
    wirePc,       \* how far the Step has come: "step", "wire" or "parsed"
    wireStep,     \* the Step handed to Step.to_dict
    wire,         \* the dictionary Step.to_dict returned
    wireParsed    \* the Step Client._parse_step made of that dictionary

startVars == <<env, builder, step, pc, attempt, registered, calls, slept, raised,
               entry>>
serverVars == <<nonJsonIsNone, served, panics, last, lastHealth, handlerCalls>>
webhookVars == <<actx, completions, posts>>
validateVars == <<vstep, vresult>>
builderVars == <<kind, heap, bs, lastOp, built>>
kebabVars == <<newName, newId, newOp>>
flowStartVars == <<flowPosts, flowStart>>
clientVars == <<clientArg, client, requests, clientCalls>>
workerVars == <<srv, workers, latest>>
wireVars == <<wirePc, wireStep, wire, wireParsed>>
restVars == <<kebabVars, flowStartVars, clientVars, workerVars, wireVars>>

vars == <<startVars, serverVars, webhookVars, validateVars, builderVars,
          restVars>>

nonStartVars == <<serverVars, webhookVars, validateVars, builderVars, restVars>>
nonServerVars == <<startVars, webhookVars, validateVars, builderVars, restVars>>
nonWebhookVars == <<startVars, serverVars, validateVars, builderVars, restVars>>
nonValidateVars == <<startVars, serverVars, webhookVars, builderVars, restVars>>
nonBuilderVars == <<startVars, serverVars, webhookVars, validateVars, restVars>>
nonKebabVars == <<startVars, serverVars, webhookVars, validateVars, builderVars,
                  flowStartVars, clientVars, workerVars, wireVars>>
nonClientVars == <<startVars, serverVars, webhookVars, validateVars,
                   builderVars, kebabVars, flowStartVars, workerVars,
                   wireVars>>
nonWorkerVars == <<startVars, serverVars, webhookVars, validateVars,
                   builderVars, kebabVars, flowStartVars, clientVars, wireVars>>
nonWireVars == <<startVars, serverVars, webhookVars, validateVars,
                 builderVars, kebabVars, flowStartVars, clientVars, workerVars>>

-----------------------------------------------------------------------------
(* Program constants *)

MAX_REGISTRATION_ATTEMPTS == 5
BACKOFF_MULTIPLIER_SECONDS == 2

(* Bounds of the model *)

MaxRequests == 2
MaxCompletions == 2
MaxBuilders == 4
MaxNameLen == 4
MaxSegments == 3
MaxClientCalls == 2
MaxWorkers == 2

-----------------------------------------------------------------------------
(* Mappings (Python dicts with string keys) are sets of <<key, value>>     *)
(* pairs with at most one pair per key.                                    *)

HasKey(m, k) == \E p \in m : p[1] = k

\* dict.get(k, default)
MapGet(m, k, default) ==
    IF HasKey(m, k) THEN (CHOOSE p \in m : p[1] = k)[2] ELSE default

-----------------------------------------------------------------------------
(* Step model and validation (types.py, builder.py) *)

StepTypes == {"sync", "async", "script", "flow"}

NoHTTP == [set |-> FALSE, endpoint |-> "", health_check |-> "", timeout |-> 0]
NoScript == [set |-> FALSE, language |-> "", script |-> ""]
NoPredicate == [set |-> FALSE, language |-> "", script |-> ""]
NoFlow == [set |-> FALSE, goals |-> <<>>, input_map |-> {}, output_map |-> {}]

NoStep == [id |-> "", name |-> "", type |-> "", attributes |-> <<>>,
           labels |-> <<>>, http |-> NoHTTP, script |-> NoScript,
           predicate |-> NoPredicate, flow |-> NoFlow, memoizable |-> FALSE]

\* StepBuilder.with_endpoint
with_endpoint(b, url) ==
    [b EXCEPT !.http = [set |-> TRUE,
                        endpoint |-> url,
                        health_check |-> IF b.http.set THEN b.http.health_check ELSE "",
                        timeout |-> IF b.http.set THEN b.http.timeout ELSE 0]]

\* Mutant: the new HTTPConfig is made from the url alone, the timeout is
\* not carried over
with_health_checkDropsTimeout(b, url) ==
    [b EXCEPT !.http = [set |-> TRUE,
                        endpoint |-> IF b.http.set THEN b.http.endpoint ELSE "",
                        health_check |-> url,
                        timeout |-> 0]]

\* StepBuilder.with_health_check
with_health_check(b, url) ==
    [b EXCEPT !.http = [set |-> TRUE,
                        endpoint |-> IF b.http.set THEN b.http.endpoint ELSE "",
                        health_check |-> url,
                        timeout |-> IF b.http.set THEN b.http.timeout ELSE 0]]

\* StepBuilder.build, before validation: the Step assembled from the fields
AssembleStep(b) ==
    [id |-> b.id, name |-> b.name, type |-> b.type,
     attributes |-> b.attributes, labels |-> b.labels, http |-> b.http,
     script |-> b.script, predicate |-> b.predicate, flow |-> b.flow,
     memoizable |-> b.memoizable]

\* JSON texts used as attribute defaults ("" is no default)
Defaults == {"", "\"s\"", "1", "1.5", "true", "{}", "[]", "null", "NaN", "bad"}

\* json.loads(default): the Python class of the parsed value, or
\* JSONDecodeError.  Python's decoder also reads NaN, as a float.
json_loads(d) ==
    CASE d = "\"s\"" -> "str"
      [] d = "1" -> "int"
      [] d = "1.5" -> "float"
      [] d = "true" -> "bool"
      [] d = "{}" -> "dict"
      [] d = "[]" -> "list"
      [] d = "null" -> "NoneType"
      [] d = "NaN" -> "float"
      [] OTHER -> "JSONDecodeError"

\* isinstance(parsed, classes): bool is a subclass of int
isinstance(cls, classes) ==
    cls \in classes \/ (cls = "bool" /\ "int" \in classes)

\* Mutant: for_each accepted on an output attribute
ForEachErrorOutputAllowed(a) ==
    IF a.for_each /\ a.type \notin {"array", "any"}
        THEN "ForEach requires array/any type for " \o a.name
    ELSE ""

\* _validate_step, the for_each rules of an attribute
ForEachError(a) ==
    IF a.for_each /\ a.role = "output"
        THEN "ForEach not allowed for output attribute " \o a.name
    ELSE IF a.for_each /\ a.type \notin {"array", "any"}
        THEN "ForEach requires array/any type for " \o a.name
    ELSE ""

\* _validate_step, the body of the loop over step.attributes: "" when the
\* attribute passes, else the message of the StepValidationError raised
ValidateAttribute(a) ==
    IF a.name = "" THEN "Attribute name cannot be empty"
    ELSE IF a.role = "const" /\ a.default = ""
        THEN "Const attribute " \o a.name \o " requires default value"
    ELSE IF a.default # "" /\ a.role \notin {"optional", "const"}
        THEN "Default value not allowed for attribute " \o a.name
    ELSE IF a.default # "" /\ json_loads(a.default) = "JSONDecodeError"
        THEN "Invalid default JSON for " \o a.name
    ELSE IF a.default # "" /\ a.type = "string"
            /\ ~isinstance(json_loads(a.default), {"str"})
        THEN "Default for " \o a.name \o " must be JSON string"
    ELSE IF a.default # "" /\ a.type = "number"
            /\ ~isinstance(json_loads(a.default), {"int", "float"})
        THEN "Default for " \o a.name \o " must be JSON number"
    ELSE IF a.default # "" /\ a.type = "boolean"
            /\ ~isinstance(json_loads(a.default), {"bool"})
        THEN "Default for " \o a.name \o " must be JSON boolean"
    ELSE IF a.default # "" /\ a.type = "object"
            /\ ~isinstance(json_loads(a.default), {"dict"})
        THEN "Default for " \o a.name \o " must be JSON object"
    ELSE IF a.default # "" /\ a.type = "array"
            /\ ~isinstance(json_loads(a.default), {"list"})
        THEN "Default for " \o a.name \o " must be JSON array"
    ELSE IF a.default # "" /\ a.type = "null"
            /\ json_loads(a.default) # "NoneType"
        THEN "Default for " \o a.name \o " must be JSON null"
    ELSE ForEachError(a)

\* _validate_step, the loop over step.attributes.items() in insertion
\* order: the first failure is the one raised
RECURSIVE ValidateAttributes(_)
ValidateAttributes(attrs) ==
    IF attrs = <<>> THEN ""
    ELSE IF ValidateAttribute(Head(attrs)) # ""
        THEN ValidateAttribute(Head(attrs))
    ELSE ValidateAttributes(Tail(attrs))

\* _validate_step: "" when the step passes, else the message of the
\* StepValidationError raised first
_validate_step(s) ==
    IF s.id = "" THEN "Step ID cannot be empty"
    ELSE IF s.name = "" THEN "Step name cannot be empty"
    ELSE IF s.type \notin StepTypes THEN "Invalid step type"
    ELSE IF s.type \in {"sync", "async"} /\ (~s.http.set \/ s.http.endpoint = "")
        THEN "HTTP config with endpoint required"
    ELSE IF s.type \in {"sync", "async"} /\ s.flow.set
        THEN "Flow config not allowed for HTTP steps"
    ELSE IF s.type \in {"sync", "async"} /\ s.script.set
        THEN "Script config not allowed for HTTP steps"
    ELSE IF s.type = "script" /\ (~s.script.set \/ s.script.script = "")
        THEN "Script config required for script step"
    ELSE IF s.type = "script" /\ s.http.set
        THEN "HTTP config not allowed for script steps"
    ELSE IF s.type = "script" /\ s.flow.set
        THEN "Flow config not allowed for script steps"
    ELSE IF s.type = "flow" /\ (~s.flow.set \/ s.flow.goals = <<>>)
        THEN "Flow goals required for flow step"
    ELSE IF s.type = "flow" /\ s.http.set
        THEN "HTTP config not allowed for flow steps"
    ELSE IF s.type = "flow" /\ s.script.set
        THEN "Script config not allowed for flow steps"
    ELSE ValidateAttributes(s.attributes)

\* The builders build(), register() and start() are called on: any name and id (with_id may set an
\* empty one), any type, with or without a script or flow configuration left
\* by earlier mutators, marked for update (update()) or not.
Builders ==
    [name : {"", "Test Step"},
     id : {"", "test-step"},
     type : StepTypes,
     attributes : {<<>>, <<[name |-> "", role |-> "required",
                            type |-> "string", default |-> "",
                            for_each |-> FALSE]>>},
     labels : {<<>>},
     http : {NoHTTP, [set |-> TRUE, endpoint |-> "http://host/step",
                      health_check |-> "http://host/hc", timeout |-> 30]},
     script : {NoScript, [set |-> TRUE, language |-> "ale", script |-> "(x)"]},
     predicate : {NoPredicate},
     flow : {NoFlow, [set |-> TRUE, goals |-> <<"s1">>, input_map |-> {},
                      output_map |-> {}]},
     memoizable : {FALSE},
     dirty : BOOLEAN]

\* handlers.py:97-103 with STEP_HOSTNAME/STEP_PORT left at their defaults
\* os.getenv(name, default) (handlers.py:97, 99)
getenv(e, name, default) == MapGet(e, name, default)

\* The environments create_step_server is run in: nothing set, both
\* variables set, a port written with a leading zero
Envs ==
    {{},
     {<<"STEP_HOSTNAME", "step.example.com">>, <<"STEP_PORT", "9000">>},
     {<<"STEP_PORT", "08081">>}}

\* int(port_str) at handlers.py:98, for the port texts of Envs
int(s) ==
    CASE s = "8081" -> 8081
      [] s = "08081" -> 8081
      [] s = "9000" -> 9000

\* handlers.py:97-99: the "{hostname}:{port}" part of both URLs
HostPort(e) ==
    getenv(e, "STEP_HOSTNAME", "localhost") \o ":"
        \o ToString(int(getenv(e, "STEP_PORT", "8081")))

\* Mutant: the id is left out of the endpoint
EndpointWithoutId(e, id) == "http://" \o HostPort(e) \o "/"

\* handlers.py:102-103: endpoint and health_endpoint
Endpoint(e, id) == "http://" \o HostPort(e) \o "/" \o id
HealthEndpoint(e) == "http://" \o HostPort(e) \o "/health"

\* handlers.py:101, 136: the rule of the POST route of the server started
\* for builder b
Route(b) == "/" \o b.id

-----------------------------------------------------------------------------
(* The engine's answers to register_step / update_step, as the client      *)
(* reports them: success, or the error raised.  status 0 stands for        *)
(* status_code None (a transport failure).                                 *)

Accepted == [ok |-> TRUE, cls |-> "", status |-> 200]
Conflict == [ok |-> FALSE, cls |-> "ClientError", status |-> 409]
ServerError == [ok |-> FALSE, cls |-> "ClientError", status |-> 500]
TransportError == [ok |-> FALSE, cls |-> "ClientError", status |-> 0]
OtherError == [ok |-> FALSE, cls |-> "Exception", status |-> 0]

EngineOutcomes == {Accepted, Conflict, ServerError, TransportError, OtherError}

Call(op, o) == [op |-> op, attempt |-> attempt, outcome |-> o]

-----------------------------------------------------------------------------
(* Requests, handler outcomes and responses of the step server *)

NoMap == [p |-> "absent", m |-> {}]
ArgsValues ==
    {NoMap, [p |-> "map", m |-> {}], [p |-> "map", m |-> {<<"value", "3">>}],
     [p |-> "other", m |-> {}]}
MetaValues ==
    {NoMap, [p |-> "map", m |-> {}],
     [p |-> "map", m |-> {<<"flow_id", "flow-1">>}],
     [p |-> "map", m |-> {<<"flow_id", "flow-2">>, <<"webhook_url", "http://hook">>}],
     [p |-> "other", m |-> {}]}

\* kind: nojson    no JSON mimetype (this includes a request without a body)
\*       empty     JSON mimetype, empty body
\*       malformed JSON mimetype, text that is not JSON
\*       null      the JSON value null
\*       falsy     false, 0, "" or []
\*       truthy    a non-empty array or string, a non-zero number or true
\*       object    a JSON object; arguments/metadata are absent, a mapping
\*                 or some other JSON value; extra: it has further keys
NonObjectKinds == {"nojson", "empty", "malformed", "null", "falsy", "truthy"}
Bodies ==
    [kind : NonObjectKinds, arguments : {NoMap}, metadata : {NoMap}, extra : {FALSE}]
    \cup [kind : {"object"}, arguments : ArgsValues, metadata : MetaValues,
          extra : {FALSE}]
    \cup [kind : {"object"}, arguments : {NoMap}, metadata : {NoMap},
          extra : {TRUE}]

NoBody == [kind |-> "none", arguments |-> NoMap, metadata |-> NoMap, extra |-> FALSE]

\* What the user's handler does when invoked.
\*   return   a StepResult(success, outputs, error)
\*   http     raises HTTPError(status, msg)
\*   raise    raises another Exception whose str() is msg
\*   other    returns something that is no StepResult (None, a dict)
HandlerOutcomes ==
    [kind : {"return"}, success : BOOLEAN, outputs : {{}, {<<"value", "3">>}},
     error : {"", "bad"}, status : {0}, msg : {""}]
    \cup [kind : {"http"}, success : {FALSE}, outputs : {{}}, error : {""},
          status : {409, 503}, msg : {"", "conflict"}]
    \cup [kind : {"raise"}, success : {FALSE}, outputs : {{}}, error : {""},
          status : {0}, msg : {"", "boom"}]
    \cup [kind : {"other"}, success : {FALSE}, outputs : {{}}, error : {""},
          status : {0}, msg : {""}]

NotInvoked == [kind |-> "none", success |-> FALSE, outputs |-> {}, error |-> "",
               status |-> 0, msg |-> ""]

-----------------------------------------------------------------------------
(* JSON objects sent as response bodies: sets of <<key, value>> pairs, the *)
(* value tagged with its JSON type.                                        *)

JBool(b) == [t |-> "bool", b |-> b, s |-> "", m |-> {}]
JStr(s) == [t |-> "str", b |-> FALSE, s |-> s, m |-> {}]
JMap(m) == [t |-> "map", b |-> FALSE, s |-> "", m |-> m]

\* Mutant: outputs and error are written even when empty
to_dictKeepsEmpty(r) ==
    {<<"success", JBool(r.success)>>, <<"outputs", JMap(r.outputs)>>,
     <<"error", JStr(r.error)>>}

\* StepResult.to_dict
to_dict(r) ==
    {<<"success", JBool(r.success)>>}
    \cup (IF r.outputs # {} THEN {<<"outputs", JMap(r.outputs)>>} ELSE {})
    \cup (IF r.error # "" THEN {<<"error", JStr(r.error)>>} ELSE {})

\* jsonify({"error": msg})
ErrorBody(msg) == {<<"error", JStr(msg)>>}

NoCtx == [flow_id |-> "", step_id |-> "", metadata |-> {}]
NoResp == [status |-> 0, body |-> {}]
NoExchange == [body |-> NoBody, handler |-> NotInvoked, invoked |-> FALSE,
               ctx |-> NoCtx, args |-> NoMap, resp |-> NoResp]
NoHealth == [resp |-> NoResp, served |-> 0, panics |-> 0]

\* The values the variables of the other components keep while one
\* component runs
ServerIdle ==
    /\ served = 0
    /\ panics = 0
    /\ last = NoExchange
    /\ lastHealth = NoHealth
    /\ handlerCalls = 0

StartIdle ==
    /\ env = {}
    /\ builder = [name |-> "", id |-> "", type |-> "sync",
                  attributes |-> <<>>, labels |-> <<>>, http |-> NoHTTP,
                  script |-> NoScript, predicate |-> NoPredicate,
                  flow |-> NoFlow, memoizable |-> FALSE, dirty |-> FALSE]
    /\ step = NoStep
    /\ pc = ""
    /\ attempt = 1
    /\ registered = FALSE
    /\ calls = <<>>
    /\ slept = <<>>
    /\ raised = ""
    /\ entry = ""

WebhookIdle ==
    /\ actx = [webhook_url |-> ""]
    /\ completions = <<>>
    /\ posts = <<>>

ValidateIdle ==
    /\ vstep = NoStep
    /\ vresult = [done |-> FALSE, error |-> ""]

BuilderIdle ==
    /\ kind = ""
    /\ heap = <<>>
    /\ bs = <<>>
    /\ lastOp = [op |-> "", arg |-> "", args |-> <<>>, on |-> 0, result |-> 0,
                 raised |-> ""]
    /\ built = [done |-> FALSE, error |-> "", step |-> NoStep]

KebabIdle == newName = <<>> /\ newId = <<>> /\ newOp = ""

FlowStartIdle ==
    /\ flowPosts = <<>>
    /\ flowStart = [done |-> FALSE, on |-> 0, answer |-> 0, raised |-> ""]

ClientIdle ==
    /\ clientArg = <<>>
    /\ client = [made |-> FALSE, base_url |-> <<>>]
    /\ requests = <<>>
    /\ clientCalls = <<>>

\* A worker thread that is not handling a request
IdleWorker ==
    [pc |-> "idle", body |-> NoBody, req_data |-> NoBody, arguments |-> NoMap,
     metadata |-> NoMap, ctx |-> NoCtx, invoked |-> FALSE, seenCtx |-> NoCtx,
     seenArgs |-> NoMap, result |-> NotInvoked,
     resp |-> [status |-> 0, body |-> {}]]

WorkersIdle ==
    /\ srv = [step_id |-> "", handler |-> "", lenient |-> TRUE]
    /\ workers = <<>>
    /\ latest = 0

\* The dictionary of a Step: `keys` are the keys it has, the field of a
\* key it does not have holds nothing that is read
NoHTTPWire == [keys |-> {}, endpoint |-> "", health_check |-> "", timeout |-> 0]
NoScriptWire == [keys |-> {}, language |-> "", script |-> ""]
NoFlowWire == [keys |-> {}, goals |-> <<>>, input_map |-> {}, output_map |-> {}]
NoWire ==
    [keys |-> {}, id |-> "", name |-> "", type |-> "", attributes |-> <<>>,
     labels |-> <<>>, http |-> NoHTTPWire, script |-> NoScriptWire,
     predicate |-> NoScriptWire, flow |-> NoFlowWire, memoizable |-> FALSE]

WireIdle ==
    /\ wirePc = ""
    /\ wireStep = NoStep
    /\ wire = NoWire
    /\ wireParsed = NoStep

RestIdle ==
    KebabIdle /\ FlowStartIdle /\ ClientIdle /\ WorkersIdle /\ WireIdle

-----------------------------------------------------------------------------
(* create_step_server: building and registering the step *)

\* Mutant: the retries end one attempt early
ExhaustedEarly(a) == a >= MAX_REGISTRATION_ATTEMPTS - 1

\* handlers.py:123, the test that ends the retries
Exhausted(a) == a >= MAX_REGISTRATION_ATTEMPTS

\* Mutant: the delay doubles with every attempt
BackoffDoubling(a) == 2 ^ a

\* handlers.py:125, the argument of time.sleep
Backoff(a) == a * BACKOFF_MULTIPLIER_SECONDS

\* Mutant: `break` is missing, the loop goes on with the next attempt
CallSucceededNoBreak(c) ==
    /\ calls' = Append(calls, c)
    /\ registered' = TRUE
    /\ attempt' = attempt + 1
    /\ pc' = IF attempt + 1 <= MAX_REGISTRATION_ATTEMPTS
               THEN "attempt" ELSE "loopdone"
    /\ UNCHANGED <<slept, raised>>

\* handlers.py:120-121: the call c returned, the loop is left by `break`
CallSucceeded(c) ==
    /\ calls' = Append(calls, c)
    /\ registered' = TRUE
    /\ pc' = "loopdone"
    /\ UNCHANGED <<attempt, slept, raised>>

\* Mutant: `registered = True; break` dedented out of the try block, so
\* that it also runs after the except clause has slept
CallFailedThenBreak(c) ==
    /\ calls' = Append(calls, c)
    /\ IF Exhausted(attempt)
         THEN /\ pc' = "raised"
              /\ raised' = c.outcome.cls
              /\ UNCHANGED <<attempt, slept, registered>>
         ELSE /\ slept' = Append(slept, Backoff(attempt))
              /\ registered' = TRUE
              /\ pc' = "loopdone"
              /\ UNCHANGED <<attempt, raised>>

\* handlers.py:122-125: the call c raised; re-raise on the last attempt,
\* else sleep and go to the next value of range(1, MAX + 1)
CallFailed(c) ==
    /\ calls' = Append(calls, c)
    /\ UNCHANGED registered
    /\ IF Exhausted(attempt)
         THEN /\ pc' = "raised"
              /\ raised' = c.outcome.cls
              /\ UNCHANGED <<attempt, slept>>
         ELSE /\ slept' = Append(slept, Backoff(attempt))
              /\ attempt' = attempt + 1
              /\ pc' = IF attempt + 1 <= MAX_REGISTRATION_ATTEMPTS
                         THEN "attempt" ELSE "loopdone"
              /\ UNCHANGED raised

\* Mutant: the builder is built as the caller left it, without the
\* endpoint and health check of the server
BuildAsGiven ==
    /\ entry = "start"
    /\ pc = "start"
    /\ LET s == AssembleStep(builder)
       IN /\ step' = s
          /\ IF _validate_step(s) # ""
               THEN pc' = "raised" /\ raised' = "StepValidationError"
               ELSE pc' = "attempt" /\ UNCHANGED raised
    /\ UNCHANGED <<env, builder, attempt, registered, calls, slept, entry, nonStartVars>>

\* handlers.py:101-108: fill in endpoint and health check, build, validate
Build ==
    /\ entry = "start"
    /\ pc = "start"
    /\ LET b == with_health_check(with_endpoint(builder, Endpoint(env, builder.id)),
                                  HealthEndpoint(env))
           s == AssembleStep(b)
       IN /\ step' = s
          /\ IF _validate_step(s) # ""
               THEN pc' = "raised" /\ raised' = "StepValidationError"
               ELSE pc' = "attempt" /\ UNCHANGED raised
    /\ UNCHANGED <<env, builder, attempt, registered, calls, slept, entry, nonStartVars>>

\* Mutant: the _dirty flag is ignored, register_step is called
UpdateStepRegisters ==
    /\ pc = "attempt"
    /\ builder.dirty
    /\ \E o \in EngineOutcomes :
         IF o.ok THEN CallSucceeded(Call("register", o))
                 ELSE CallFailed(Call("register", o))
    /\ UNCHANGED <<env, builder, step, entry, nonStartVars>>

\* handlers.py:111-112: a builder marked for update calls update_step
UpdateStep ==
    /\ pc = "attempt"
    /\ builder.dirty
    /\ \E o \in EngineOutcomes :
         IF o.ok THEN CallSucceeded(Call("update", o))
                 ELSE CallFailed(Call("update", o))
    /\ UNCHANGED <<env, builder, step, entry, nonStartVars>>

\* Mutant: a 409 is raised like every other ClientError, no fallback
RegisterStepNoFallback ==
    /\ pc = "attempt"
    /\ ~builder.dirty
    /\ \E o \in EngineOutcomes :
         IF o.ok THEN CallSucceeded(Call("register", o))
                 ELSE CallFailed(Call("register", o))
    /\ UNCHANGED <<env, builder, step, entry, nonStartVars>>

\* Mutant: the status of the ClientError is not looked at, every
\* ClientError leads to the fallback
RegisterStepFallbackAlways ==
    /\ pc = "attempt"
    /\ ~builder.dirty
    /\ \E o \in EngineOutcomes :
         IF o.ok THEN CallSucceeded(Call("register", o))
         ELSE IF o.cls = "ClientError"
           THEN /\ calls' = Append(calls, Call("register", o))
                /\ pc' = "fallback"
                /\ UNCHANGED <<attempt, registered, slept, raised>>
         ELSE CallFailed(Call("register", o))
    /\ UNCHANGED <<env, builder, step, entry, nonStartVars>>

\* handlers.py:113-118: register_step; a 409 ClientError leads to the
\* fallback, any other error is raised to the retry handler
RegisterStep ==
    /\ pc = "attempt"
    /\ ~builder.dirty
    /\ \E o \in EngineOutcomes :
         IF o.ok THEN CallSucceeded(Call("register", o))
         ELSE IF o.cls = "ClientError" /\ o.status = 409
           THEN /\ calls' = Append(calls, Call("register", o))
                /\ pc' = "fallback"
                /\ UNCHANGED <<attempt, registered, slept, raised>>
         ELSE CallFailed(Call("register", o))
    /\ UNCHANGED <<env, builder, step, entry, nonStartVars>>

\* Mutant: after a failed fallback the next attempt goes on with
\* update_step, register_step is not tried again
FallbackUpdateKeepsUpdating ==
    /\ pc = "fallback"
    /\ \E o \in EngineOutcomes :
         IF o.ok THEN CallSucceeded(Call("update", o))
         ELSE /\ calls' = Append(calls, Call("update", o))
              /\ UNCHANGED registered
              /\ IF Exhausted(attempt)
                   THEN /\ pc' = "raised"
                        /\ raised' = o.cls
                        /\ UNCHANGED <<attempt, slept>>
                   ELSE /\ slept' = Append(slept, Backoff(attempt))
                        /\ attempt' = attempt + 1
                        /\ pc' = "fallback"
                        /\ UNCHANGED raised
    /\ UNCHANGED <<env, builder, step, entry, nonStartVars>>

\* handlers.py:119: update_step after the 409
FallbackUpdate ==
    /\ pc = "fallback"
    /\ \E o \in EngineOutcomes :
         IF o.ok THEN CallSucceeded(Call("update", o))
                 ELSE CallFailed(Call("update", o))
    /\ UNCHANGED <<env, builder, step, entry, nonStartVars>>

\* handlers.py:127-166: after the loop, raise unless registered, else
\* create the application and start listening
AppRun ==
    /\ pc = "loopdone"
    /\ IF ~registered
         THEN pc' = "raised" /\ raised' = "StepRegistrationError"
         ELSE pc' = "serving" /\ UNCHANGED raised
    /\ UNCHANGED <<env, builder, step, attempt, registered, calls, slept, entry, nonStartVars>>

Init ==
    /\ env \in Envs
    /\ builder \in Builders
    /\ step = NoStep
    /\ pc = "start"
    /\ attempt = 1
    /\ registered = FALSE
    /\ calls = <<>>
    /\ slept = <<>>
    /\ raised = ""
    /\ entry = "start"
    /\ nonJsonIsNone = TRUE
    /\ ServerIdle
    /\ WebhookIdle
    /\ ValidateIdle
    /\ BuilderIdle
    /\ RestIdle

Next == Build \/ UpdateStep \/ RegisterStep \/ FallbackUpdate \/ AppRun

Spec == Init /\ [][Next]_vars

-----------------------------------------------------------------------------
(* The running server: POST /{step-id} *)

\* request.get_json() at handlers.py:139 (Flask, silent=False): a body that
\* does not parse raises BadRequest; without a JSON mimetype it gives None
\* (Flask before 2.1) or raises UnsupportedMediaType (Flask 2.1 and later).
\* exc is str() of the exception raised, "" when it returned.
get_json(body, lenient) ==
    IF body.kind \in {"empty", "malformed"}
      THEN [exc |-> "400 Bad Request", none |-> FALSE]
    ELSE IF body.kind = "nojson"
      THEN IF lenient THEN [exc |-> "", none |-> TRUE]
                      ELSE [exc |-> "415 Unsupported Media Type", none |-> FALSE]
    ELSE [exc |-> "", none |-> body.kind = "null"]

\* `not req_data` at handlers.py:140 for the value get_json returned
Falsy(body, j) ==
    \/ j.none
    \/ body.kind = "falsy"
    \/ /\ body.kind = "object"
       /\ body.arguments.p = "absent"
       /\ body.metadata.p = "absent"
       /\ ~body.extra

\* req_data.get(key, {}) at handlers.py:143-144
GetOrEmpty(v) == IF v.p = "absent" THEN [p |-> "map", m |-> {}] ELSE v

\* Mutant: no recovery, every error of the handler propagates
ExecuteWithoutRecovery(h) == h

\* Mutant: the HTTPError clause is missing, every error is recovered
ExecuteRecoverAll(h) ==
    IF h.kind \in {"raise", "http"}
      THEN [kind |-> "return", success |-> FALSE, outputs |-> {},
            error |-> "Step handler panicked: " \o h.msg,
            status |-> 0, msg |-> ""]
      ELSE h

\* _execute_with_recovery: what handle_step gets back from the handler
\* outcome h; an HTTPError is re-raised, any other Exception is turned
\* into a failed StepResult
_execute_with_recovery(h) ==
    IF h.kind = "raise"
      THEN [kind |-> "return", success |-> FALSE, outputs |-> {},
            error |-> "Step handler panicked: " \o h.msg,
            status |-> 0, msg |-> ""]
      ELSE h

Reply(status, body, invoked, ctx, args) ==
    [resp |-> [status |-> status, body |-> body], invoked |-> invoked,
     ctx |-> ctx, args |-> args]

\* Mutant: the context is built without the request's metadata
StepContextNoMetadata(flow_id, step_id, metadata) ==
    [flow_id |-> flow_id, step_id |-> step_id, metadata |-> {}]

\* handlers.py:147-151: StepContext(client=client.flow(flow_id), step_id,
\* metadata); the flow client is represented by its flow_id
StepContext(flow_id, step_id, metadata) ==
    [flow_id |-> flow_id, step_id |-> step_id, metadata |-> metadata]

\* Mutant: the status line follows the success flag
ResultStatusBySuccess(result) == IF result.success THEN 200 ELSE 500

\* handlers.py:155: jsonify(result.to_dict()) is returned without a status,
\* which Flask sends as 200
ResultStatus(result) == 200

\* handle_step (handlers.py:137-160) for a request body and the handler
\* outcome h (only read when the handler is reached).  An exception that
\* leaves _execute_with_recovery is caught at 157 (HTTPError) or 159.
handle_step(body, h, lenient, step_id) ==
    LET j == get_json(body, lenient) IN
    IF j.exc # ""
      THEN Reply(500, ErrorBody(j.exc), FALSE, NoCtx, NoMap)
    ELSE IF Falsy(body, j)
      THEN Reply(400, ErrorBody("Invalid JSON"), FALSE, NoCtx, NoMap)
    ELSE IF body.kind # "object"
      THEN Reply(500, ErrorBody("object has no attribute 'get'"), FALSE, NoCtx, NoMap)
    ELSE
      LET arguments == GetOrEmpty(body.arguments)
          metadata == GetOrEmpty(body.metadata)
      IN
      IF metadata.p # "map"
        THEN Reply(500, ErrorBody("object has no attribute 'get'"), FALSE, NoCtx, NoMap)
      ELSE
        LET flow_id == MapGet(metadata.m, "flow_id", "")
            ctx == StepContext(flow_id, step_id, metadata.m)
            result == _execute_with_recovery(h)
        IN
        IF result.kind = "return"
          THEN Reply(ResultStatus(result), to_dict(result), TRUE, ctx, arguments)
        ELSE IF result.kind = "http"
          THEN Reply(result.status, ErrorBody(result.msg), TRUE, ctx, arguments)
        ELSE IF result.kind = "raise"
          THEN Reply(500, ErrorBody(result.msg), TRUE, ctx, arguments)
        ELSE Reply(500, ErrorBody("object has no attribute 'to_dict'"), TRUE,
                   ctx, arguments)

\* The handler outcomes a request can meet: one of HandlerOutcomes when
\* handle_step reaches the handler, none otherwise.
OutcomesFor(body, lenient, step_id) ==
    IF handle_step(body, NotInvoked, lenient, step_id).invoked
      THEN HandlerOutcomes ELSE {NotInvoked}

\* One POST /{step-id} exchange
HandleStep ==
    /\ pc = "serving"
    /\ served < MaxRequests
    /\ \E body \in Bodies :
         \E h \in OutcomesFor(body, nonJsonIsNone, step.id) :
           LET r == handle_step(body, h, nonJsonIsNone, step.id) IN
           /\ last' = [body |-> body, handler |-> h, invoked |-> r.invoked,
                       ctx |-> r.ctx, args |-> r.args, resp |-> r.resp]
           /\ panics' = IF h.kind = "raise" THEN panics + 1 ELSE panics
           /\ handlerCalls' = handlerCalls + (IF r.invoked THEN 1 ELSE 0)
    /\ served' = served + 1
    /\ UNCHANGED <<nonJsonIsNone, lastHealth, nonServerVars>>

\* Mutant: the health route reports the step name
healthByName(s) ==
    [invoked |-> FALSE,
     resp |-> [status |-> 200,
               body |-> {<<"status", JStr("healthy")>>, <<"service", JStr(s.name)>>}]]

\* health (handlers.py:132-134) of the server of step s: the handler is
\* not used, the answer is jsonify of a fixed mapping, sent as 200
health(s) ==
    [invoked |-> FALSE,
     resp |-> [status |-> 200,
               body |-> {<<"status", JStr("healthy")>>, <<"service", JStr(s.id)>>}]]

\* One GET /health exchange, in whatever state the server is
Health ==
    /\ pc = "serving"
    /\ LET r == health(step) IN
         /\ lastHealth' = [resp |-> r.resp, served |-> served, panics |-> panics]
         /\ handlerCalls' = handlerCalls + (IF r.invoked THEN 1 ELSE 0)
    /\ UNCHANGED <<nonJsonIsNone, served, panics, last, nonServerVars>>

\* The state app.run is reached in after a first registration that the
\* engine accepted, for either behaviour of get_json
ServerInit ==
    /\ env = {}
    /\ builder \in {b \in Builders : b.name # "" /\ b.id # "" /\ b.type = "sync"
                                     /\ b.attributes = <<>> /\ b.http = NoHTTP
                                     /\ ~b.script.set /\ ~b.flow.set /\ ~b.dirty}
    /\ step = AssembleStep(with_health_check(
                  with_endpoint(builder, Endpoint(env, builder.id)),
                  HealthEndpoint(env)))
    /\ pc = "serving"
    /\ attempt = 1
    /\ registered = TRUE
    /\ calls = <<[op |-> "register", attempt |-> 1, outcome |-> Accepted]>>
    /\ slept = <<>>
    /\ raised = ""
    /\ entry = "start"
    /\ nonJsonIsNone \in BOOLEAN
    /\ ServerIdle
    /\ WebhookIdle
    /\ ValidateIdle
    /\ BuilderIdle
    /\ RestIdle

ServerNext == HandleStep \/ Health

SpecServer == ServerInit /\ [][ServerNext]_vars

-----------------------------------------------------------------------------
(* AsyncContext: the completion calls and the webhook POST *)

\* What requests.post gives for the webhook POST: a final response with
\* this status (a 3xx is one requests does not follow, such as 304), or,
\* with status 0, a transport failure (a RequestException)
WebhookAnswers == {200, 304, 404, 500, 0}

\* Response.raise_for_status: raises HTTPError for a 4xx or 5xx status
raise_for_status(status) == status >= 400 /\ status < 600

\* AsyncContext.success: StepResult(success=True, outputs=outputs)
SuccessResult(outputs) == [success |-> TRUE, outputs |-> outputs, error |-> ""]

\* Mutant: fail() reports the message among the outputs
FailResultInOutputs(error) ==
    [success |-> FALSE, outputs |-> {<<"error", error>>}, error |-> ""]

\* AsyncContext.fail: StepResult(success=False, error=error)
FailResult(error) == [success |-> FALSE, outputs |-> {}, error |-> error]

\* The results handed to complete()
CompleteResults ==
    [success : BOOLEAN,
     outputs : {{}, {<<"result", "done">>},
                {<<"result", "done">>, <<"count", "2">>}},
     error : {"", "x"}]

\* Mutant: the context remembers that it was completed, a further
\* completion is dropped without a POST
_send_webhookOnce(prim, result, answer) ==
    /\ IF completions = <<>>
         THEN /\ completions' = Append(completions,
                    [prim |-> prim, result |-> result, answer |-> answer,
                     raised |-> IF answer = 0 \/ raise_for_status(answer)
                                  THEN "WebhookError" ELSE "",
                     posts |-> 1])
              /\ posts' = Append(posts,
                    [url |-> actx.webhook_url, body |-> to_dict(result),
                     content_type |-> "application/json",
                     call |-> Len(completions) + 1])
         ELSE /\ completions' = Append(completions,
                    [prim |-> prim, result |-> result, answer |-> answer,
                     raised |-> "", posts |-> 0])
              /\ posts' = posts
    /\ UNCHANGED <<actx, nonWebhookVars>>

\* AsyncContext._send_webhook(result) when the POST is answered by `answer`:
\* one requests.post with the wire form as JSON body; a RequestException
\* (transport failure, or the HTTPError of raise_for_status) is raised as
\* WebhookError
_send_webhook(prim, result, answer) ==
    /\ completions' = Append(completions,
          [prim |-> prim, result |-> result, answer |-> answer,
           raised |-> IF answer = 0 \/ raise_for_status(answer)
                        THEN "WebhookError" ELSE "",
           posts |-> 1])
    /\ posts' = Append(posts,
          [url |-> actx.webhook_url, body |-> to_dict(result),
           content_type |-> "application/json", call |-> Len(completions) + 1])
    /\ UNCHANGED <<actx, nonWebhookVars>>

\* AsyncContext.success(outputs)
Success ==
    /\ Len(completions) < MaxCompletions
    /\ \E outputs \in {{}, {<<"result", "done">>}}, answer \in WebhookAnswers :
          _send_webhook("success", SuccessResult(outputs), answer)

\* AsyncContext.fail(error)
Fail ==
    /\ Len(completions) < MaxCompletions
    /\ \E error \in {"", "x"}, answer \in WebhookAnswers :
          _send_webhook("fail", FailResult(error), answer)

\* AsyncContext.complete(result)
Complete ==
    /\ Len(completions) < MaxCompletions
    /\ \E result \in CompleteResults, answer \in WebhookAnswers :
          _send_webhook("complete", result, answer)

WebhookInit ==
    /\ StartIdle
    /\ nonJsonIsNone = TRUE
    /\ ServerIdle
    /\ actx = [webhook_url |-> "http://engine/webhook/flow-1/step-1"]
    /\ completions = <<>>
    /\ posts = <<>>
    /\ ValidateIdle
    /\ BuilderIdle
    /\ RestIdle

WebhookNext == Success \/ Fail \/ Complete

SpecWebhook == WebhookInit /\ [][WebhookNext]_vars

-----------------------------------------------------------------------------
(* The validator applied to assembled steps *)

AttributeRoles == {"required", "optional", "const", "output"}
AttributeTypes ==
    {"string", "number", "boolean", "object", "array", "null", "any"}

\* AttributeSpec values under a name: the dict entries of step.attributes
AttributeSpecs ==
    [name : {"", "a"}, role : AttributeRoles, type : AttributeTypes,
     default : Defaults, for_each : BOOLEAN]

\* Entries that follow the first one in the dict
LaterAttributes ==
    {[name |-> "b", role |-> "required", type |-> "string", default |-> "",
      for_each |-> FALSE],
     [name |-> "b", role |-> "output", type |-> "array", default |-> "",
      for_each |-> TRUE],
     [name |-> "b", role |-> "optional", type |-> "number",
      default |-> "\"s\"", for_each |-> FALSE]}

\* The steps handed to the validator: a sync step with its endpoint, or a
\* script step that also carries an http config, with zero to two attributes
ValidateSteps ==
    {[id |-> "test-step", name |-> "Test Step", type |-> ty,
      attributes |-> attrs,
      labels |-> <<>>,
      http |-> [set |-> TRUE, endpoint |-> Endpoint({}, "test-step"),
                health_check |-> "", timeout |-> 0],
      script |-> IF ty = "script"
                   THEN [set |-> TRUE, language |-> "ale", script |-> "(x)"]
                   ELSE NoScript,
      predicate |-> NoPredicate,
      flow |-> NoFlow,
      memoizable |-> FALSE] :
        ty \in {"sync", "script"},
        attrs \in {<<>>} \cup {<<a>> : a \in AttributeSpecs}
                  \cup {<<a, b>> : a \in AttributeSpecs, b \in LaterAttributes}}

\* _validate_step(step): returns, or raises StepValidationError
Validate ==
    /\ ~vresult.done
    /\ vresult' = [done |-> TRUE, error |-> _validate_step(vstep)]
    /\ UNCHANGED <<vstep, nonValidateVars>>

ValidateInit ==
    /\ StartIdle
    /\ nonJsonIsNone = TRUE
    /\ ServerIdle
    /\ WebhookIdle
    /\ vstep \in ValidateSteps
    /\ vresult = [done |-> FALSE, error |-> ""]
    /\ BuilderIdle
    /\ RestIdle

ValidateNext == Validate

SpecValidate == ValidateInit /\ [][ValidateNext]_vars

-----------------------------------------------------------------------------
(* The default id of a step builder: _to_kebab_case applied to its name.    *)
(* Strings are sequences of one-character strings here.                     *)

Lowers == <<"a", "b", "c", "d", "e", "f", "g", "h", "i", "j", "k", "l", "m",
           "n", "o", "p", "q", "r", "s", "t", "u", "v", "w", "x", "y", "z">>
Uppers == <<"A", "B", "C", "D", "E", "F", "G", "H", "I", "J", "K", "L", "M",
           "N", "O", "P", "Q", "R", "S", "T", "U", "V", "W", "X", "Y", "Z">>

IsLower(c) == \E i \in 1..Len(Lowers) : Lowers[i] = c
IsUpper(c) == \E i \in 1..Len(Uppers) : Uppers[i] = c
IsDigit(c) == c \in {"0", "1", "2", "3", "4", "5", "6", "7", "8", "9"}

\* [\s_]: whitespace or underscore
IsSeparator(c) == c \in {" ", "\t", "\n", "\r", "_"}

\* str.lower on one character
lower(c) ==
    IF IsUpper(c) THEN Lowers[CHOOSE i \in 1..Len(Uppers) : Uppers[i] = c]
    ELSE c

\* re.sub(r"([a-z0-9])([A-Z])", r"\1-\2", s): matches are taken left to
\* right and do not overlap
RECURSIVE InsertDashes(_)
InsertDashes(s) ==
    IF Len(s) < 2 THEN s
    ELSE IF (IsLower(s[1]) \/ IsDigit(s[1])) /\ IsUpper(s[2])
        THEN <<s[1], "-", s[2]>> \o InsertDashes(SubSeq(s, 3, Len(s)))
    ELSE <<s[1]>> \o InsertDashes(Tail(s))

\* The rest of s after its leading separators
RECURSIVE SkipSeparators(_)
SkipSeparators(s) ==
    IF s # <<>> /\ IsSeparator(Head(s)) THEN SkipSeparators(Tail(s)) ELSE s

\* Mutant: every separator character becomes a dash of its own
RECURSIVE DashPerSeparator(_)
DashPerSeparator(s) ==
    IF s = <<>> THEN <<>>
    ELSE <<IF IsSeparator(Head(s)) THEN "-" ELSE Head(s)>>
            \o DashPerSeparator(Tail(s))

\* re.sub(r"[\s_]+", "-", s)
RECURSIVE CollapseSeparators(_)
CollapseSeparators(s) ==
    IF s = <<>> THEN <<>>
    ELSE IF IsSeparator(Head(s))
        THEN <<"-">> \o CollapseSeparators(SkipSeparators(s))
    ELSE <<Head(s)>> \o CollapseSeparators(Tail(s))

\* _to_kebab_case
_to_kebab_case(s) ==
    LET k == CollapseSeparators(InsertDashes(s))
    IN [i \in 1..Len(k) |-> lower(k[i])]

\* The characters joined into a string
RECURSIVE Join(_)
Join(s) == IF s = <<>> THEN "" ELSE Head(s) \o Join(Tail(s))

\* StepBuilder.__init__: self._id = step_id or _to_kebab_case(name)
InitialId(name, step_id) ==
    IF step_id # <<>> THEN step_id ELSE _to_kebab_case(name)

TestStepName == <<"T", "e", "s", "t", " ", "S", "t", "e", "p">>

\* Names of the tests, and every name of up to MaxNameLen characters over
\* a lowercase letter, an uppercase letter, a digit, a space, an underscore
\* and a dash
NameAlphabet == {"a", "B", "1", " ", "_", "-"}
Names ==
    UNION {[1..n -> NameAlphabet] : n \in 0..MaxNameLen}
    \cup {TestStepName,
          <<"T", "e", "s", "t", "S", "t", "e", "p">>,
          <<"M", "y", "A", "w", "e", "s", "o", "m", "e", "S", "t", "e", "p">>,
          <<"t", "e", "s", "t", "_", "s", "t", "e", "p">>,
          <<"t", "e", "s", "t", " ", "s", "t", "e", "p">>,
          <<"t", "e", "s", "t", "S", "t", "e", "p">>}

\* Client.new_step(name): StepBuilder(client, name), step_id left at None
NewStep ==
    /\ newOp = ""
    /\ newId' = InitialId(newName, <<>>)
    /\ newOp' = "new_step"
    /\ UNCHANGED <<newName, nonKebabVars>>

\* StepBuilder.with_id(step_id) on that builder or on one derived from it
WithId ==
    /\ newOp # ""
    /\ \E step_id \in {<<>>, <<"X", "_", "y">>} :
          newId' = step_id
    /\ newOp' = "with_id"
    /\ UNCHANGED <<newName, nonKebabVars>>

KebabInit ==
    /\ StartIdle
    /\ nonJsonIsNone = TRUE
    /\ ServerIdle
    /\ WebhookIdle
    /\ ValidateIdle
    /\ BuilderIdle
    /\ newName \in Names
    /\ newId = <<>>
    /\ newOp = ""
    /\ FlowStartIdle
    /\ ClientIdle
    /\ WorkersIdle
    /\ WireIdle

KebabNext == NewStep \/ WithId

SpecKebab == KebabInit /\ [][KebabNext]_vars

-----------------------------------------------------------------------------
(* The engine client: its base URL and the answers to its requests *)

\* str.rstrip(c)
RECURSIVE rstrip(_, _)
rstrip(s, c) ==
    IF s # <<>> /\ s[Len(s)] = c THEN rstrip(SubSeq(s, 1, Len(s) - 1), c)
    ELSE s

\* str.endswith(suffix)
endswith(s, suffix) ==
    /\ Len(s) >= Len(suffix)
    /\ SubSeq(s, Len(s) - Len(suffix) + 1, Len(s)) = suffix

EngineSuffix == <<"/", "e", "n", "g", "i", "n", "e">>

\* Mutant: the suffix is looked for before the trailing slashes are removed
BaseUrlSuffixFirst(base_url) ==
    rstrip(IF endswith(base_url, EngineSuffix)
             THEN SubSeq(base_url, 1, Len(base_url) - Len(EngineSuffix))
             ELSE base_url, "/")

\* Client.__init__: the base_url the client keeps
BaseUrl(base_url) ==
    LET trimmed == rstrip(base_url, "/") IN
    IF endswith(trimmed, EngineSuffix)
    THEN SubSeq(trimmed, 1, Len(trimmed) - Len(EngineSuffix))
    ELSE trimmed

\* The default of the base_url parameter
DefaultBaseUrl == <<"h", "t", "t", "p", ":", "/", "/", "l",
                   "o", "c", "a", "l", "h", "o", "s", "t", ":", "8", "0", "8", "0">>

\* What the session gives for a request: a final response with this status
\* (a 3xx is one requests does not follow, such as 304), or, with status 0,
\* a transport failure (a RequestException without response)
EngineAnswers == {200, 304, 404, 409, 500, 0}

\* The base_url arguments: the default, those of the tests, and a host
\* followed by up to MaxSegments of the segments "/", "/engine" and "/api"
RECURSIVE Flatten(_)
Flatten(ss) == IF ss = <<>> THEN <<>> ELSE Head(ss) \o Flatten(Tail(ss))

UrlSegments == {<<"/">>, EngineSuffix, <<"/", "a", "p", "i">>}

BaseUrlArgs ==
    {<<"h">> \o Flatten(ss) :
        ss \in UNION {[1..n -> UrlSegments] : n \in 0..MaxSegments}}
    \cup {DefaultBaseUrl,
          DefaultBaseUrl \o EngineSuffix,
          <<"h", "e", "n", "g", "i", "n", "e">>,
          <<"h", "/", "x", "e", "n", "g", "i", "n", "e">>,
          <<"h", "/", "e", "n", "g", "i", "n", "e", "/", "v", "1">>}

\* Client(base_url)
NewClient ==
    /\ ~client.made
    /\ client' = [made |-> TRUE, base_url |-> BaseUrl(clientArg)]
    /\ UNCHANGED <<clientArg, requests, clientCalls, nonClientVars>>

\* The id of the step handed to register_step and update_step
ClientStepId == "test-step"

\* One session request and the end of the client call that made it
Send(op, method, url, answer, err, status_code) ==
    /\ requests' = Append(requests,
          [method |-> method, url |-> url, call |-> Len(clientCalls) + 1])
    /\ clientCalls' = Append(clientCalls,
          [op |-> op, answer |-> answer, raised |-> err,
           status_code |-> status_code])
    /\ UNCHANGED <<clientArg, client, nonClientVars>>

\* The except clause of the client calls: a RequestException becomes a
\* ClientError with the status of e.response, None (0 here) without one
ClientRaised(answer) ==
    IF answer = 0 \/ raise_for_status(answer) THEN "ClientError" ELSE ""

CanCall == client.made /\ Len(clientCalls) < MaxClientCalls

\* Client.register_step
ClientRegisterStep ==
    /\ CanCall
    /\ \E answer \in EngineAnswers :
          Send("register_step", "POST",
               Join(client.base_url) \o "/engine/step",
               answer, ClientRaised(answer),
               IF ClientRaised(answer) # "" THEN answer ELSE 0)

\* Client.update_step
ClientUpdateStep ==
    /\ CanCall
    /\ \E answer \in EngineAnswers :
          Send("update_step", "PUT",
               Join(client.base_url) \o "/engine/step/" \o ClientStepId,
               answer, ClientRaised(answer),
               IF ClientRaised(answer) # "" THEN answer ELSE 0)

\* Client.list_steps: when the answer is accepted its body is parsed;
\* resp.json() on a body that is not JSON raises an error that newer
\* versions of requests derive from RequestException (it carries no
\* response) and older ones do not
ClientListSteps ==
    /\ CanCall
    /\ \E answer \in EngineAnswers, body \in {"json", "notjson"} :
          IF ClientRaised(answer) # "" \/ body = "json"
          THEN Send("list_steps", "GET",
                    Join(client.base_url) \o "/engine/step",
                    answer, ClientRaised(answer),
                    IF ClientRaised(answer) # "" THEN answer ELSE 0)
          ELSE \E cls \in {"ClientError", "JSONDecodeError"} :
                  Send("list_steps", "GET",
                       Join(client.base_url) \o "/engine/step",
                       answer, cls, 0)

ClientInit ==
    /\ StartIdle
    /\ nonJsonIsNone = TRUE
    /\ ServerIdle
    /\ WebhookIdle
    /\ ValidateIdle
    /\ BuilderIdle
    /\ KebabIdle
    /\ FlowStartIdle
    /\ clientArg \in BaseUrlArgs
    /\ client = [made |-> FALSE, base_url |-> <<>>]
    /\ requests = <<>>
    /\ clientCalls = <<>>
    /\ WorkersIdle
    /\ WireIdle

ClientNext ==
    NewClient \/ ClientRegisterStep \/ ClientUpdateStep \/ ClientListSteps

SpecClient == ClientInit /\ [][ClientNext]_vars

-----------------------------------------------------------------------------
(* POST /{step-id} handled by concurrent worker threads.  app.run serves    *)
(* each request in a thread of its own; a worker's record holds the locals  *)
(* of its handle_step call, and the steps of different workers interleave.  *)

Workers == 1..MaxWorkers

\* The handlers the server is started with: functions of the context and
\* the arguments they are called with, holding no state of their own.
\*   echo    returns the arguments as outputs, with the context's flow id
\*   fail    returns a failure whose error is the context's flow id
\*   panic   raises an Exception whose message is the context's flow id
\*   reject  raises HTTPError(409, the context's flow id)
\*   none    returns None
HandlerNames == {"echo", "fail", "panic", "reject", "none"}

Handler(name, ctx, args) ==
    CASE name = "echo" ->
           [kind |-> "return", success |-> TRUE,
            outputs |-> args.m \cup {<<"flow", ctx.flow_id>>}
                        \cup {<<"meta", p[1]>> : p \in ctx.metadata},
            error |-> "", status |-> 0, msg |-> ""]
      [] name = "fail" ->
           [kind |-> "return", success |-> FALSE, outputs |-> {},
            error |-> ctx.flow_id, status |-> 0, msg |-> ""]
      [] name = "panic" ->
           [kind |-> "raise", success |-> FALSE, outputs |-> {}, error |-> "",
            status |-> 0, msg |-> ctx.flow_id]
      [] name = "reject" ->
           [kind |-> "http", success |-> FALSE, outputs |-> {}, error |-> "",
            status |-> 409, msg |-> ctx.flow_id]
      [] OTHER ->
           [kind |-> "other", success |-> FALSE, outputs |-> {}, error |-> "",
            status |-> 0, msg |-> ""]

\* Mutant: `request` is one global, the request received last
requestGlobal(t) == workers[latest].body

\* flask.request as worker t reads it: a proxy to the request of the
\* request context pushed for that worker
request(t) == workers[t].body

Finish(t, status, body) ==
    workers' = [workers EXCEPT ![t].pc = "done",
                               ![t].resp = [status |-> status, body |-> body]]

\* Flask takes a request, pushes its context and dispatches to handle_step
Receive(t) ==
    /\ workers[t].pc = "idle"
    /\ \E body \in Bodies :
         workers' = [workers EXCEPT ![t].pc = "received", ![t].body = body]
    /\ latest' = t
    /\ UNCHANGED <<srv, nonWorkerVars>>

\* handlers.py:139-141: req_data = request.get_json(); an exception goes to
\* the handler at 159, a falsy value is answered with 400
GetJson(t) ==
    /\ workers[t].pc = "received"
    /\ LET body == request(t)
           j == get_json(body, srv.lenient)
       IN IF j.exc # "" THEN Finish(t, 500, ErrorBody(j.exc))
          ELSE IF Falsy(body, j) THEN Finish(t, 400, ErrorBody("Invalid JSON"))
          ELSE workers' = [workers EXCEPT ![t].pc = "parsed",
                                          ![t].req_data = body]
    /\ UNCHANGED <<srv, latest, nonWorkerVars>>

\* handlers.py:143-151: arguments, metadata, flow_id, the flow client and
\* the StepContext; a req_data or metadata without .get raises, which the
\* handler at 159 answers
BuildContext(t) ==
    /\ workers[t].pc = "parsed"
    /\ LET req_data == workers[t].req_data
           arguments == GetOrEmpty(req_data.arguments)
           metadata == GetOrEmpty(req_data.metadata)
       IN IF req_data.kind # "object" \/ metadata.p # "map"
            THEN Finish(t, 500, ErrorBody("object has no attribute 'get'"))
            ELSE workers' =
                   [workers EXCEPT
                      ![t].pc = "ready",
                      ![t].arguments = arguments,
                      ![t].metadata = metadata,
                      ![t].ctx = StepContext(MapGet(metadata.m, "flow_id", ""),
                                             srv.step_id, metadata.m)]
    /\ UNCHANGED <<srv, latest, nonWorkerVars>>

\* handlers.py:153: result = _execute_with_recovery(ctx, handler, arguments)
Invoke(t) ==
    /\ workers[t].pc = "ready"
    /\ LET w == workers[t] IN
         workers' =
           [workers EXCEPT
              ![t].pc = "invoked",
              ![t].invoked = TRUE,
              ![t].seenCtx = w.ctx,
              ![t].seenArgs = w.arguments,
              ![t].result =
                 _execute_with_recovery(Handler(srv.handler, w.ctx, w.arguments))]
    /\ UNCHANGED <<srv, latest, nonWorkerVars>>

\* handlers.py:155-160: the result's wire form, or the answer to the
\* HTTPError that left _execute_with_recovery
Respond(t) ==
    /\ workers[t].pc = "invoked"
    /\ LET result == workers[t].result IN
         IF result.kind = "return"
           THEN Finish(t, ResultStatus(result), to_dict(result))
         ELSE IF result.kind = "http"
           THEN Finish(t, result.status, ErrorBody(result.msg))
         ELSE Finish(t, 500, ErrorBody("object has no attribute 'to_dict'"))
    /\ UNCHANGED <<srv, latest, nonWorkerVars>>

\* The server once app.run is reached, every worker waiting for a request
WorkersInit ==
    /\ srv \in [step_id : {"test-step"}, handler : HandlerNames,
                lenient : BOOLEAN]
    /\ workers = [t \in Workers |-> IdleWorker]
    /\ latest = 0
    /\ StartIdle
    /\ nonJsonIsNone = TRUE
    /\ ServerIdle
    /\ WebhookIdle
    /\ ValidateIdle
    /\ BuilderIdle
    /\ KebabIdle
    /\ FlowStartIdle
    /\ ClientIdle
    /\ WireIdle

WorkersNext ==
    \E t \in Workers :
      Receive(t) \/ GetJson(t) \/ BuildContext(t) \/ Invoke(t) \/ Respond(t)

SpecWorkers == WorkersInit /\ [][WorkersNext]_vars

-----------------------------------------------------------------------------
(* The wire form of a Step: Step.to_dict (types.py) and Client._parse_step  *)
(* (client.py)                                                              *)

WithKey(cond, key) == IF cond THEN {key} ELSE {}

\* AttributeSpec.to_dict
AttributeSpec_to_dict(a) ==
    [keys |-> {"role", "type"} \cup WithKey(a.default # "", "default")
                               \cup WithKey(a.for_each, "for_each"),
     role |-> a.role,
     type |-> a.type,
     default |-> IF a.default # "" THEN a.default ELSE "",
     for_each |-> a.for_each]

\* HTTPConfig.to_dict
HTTPConfig_to_dict(c) ==
    [keys |-> {"endpoint"} \cup WithKey(c.health_check # "", "health_check")
                           \cup WithKey(c.timeout > 0, "timeout"),
     endpoint |-> c.endpoint,
     health_check |-> IF c.health_check # "" THEN c.health_check ELSE "",
     timeout |-> IF c.timeout > 0 THEN c.timeout ELSE 0]

\* ScriptConfig.to_dict and PredicateConfig.to_dict
ScriptConfig_to_dict(c) ==
    [keys |-> {"language", "script"}, language |-> c.language,
     script |-> c.script]

\* FlowConfig.to_dict
FlowConfig_to_dict(c) ==
    [keys |-> {"goals"} \cup WithKey(c.input_map # {}, "input_map")
                        \cup WithKey(c.output_map # {}, "output_map"),
     goals |-> c.goals,
     input_map |-> IF c.input_map # {} THEN c.input_map ELSE {},
     output_map |-> IF c.output_map # {} THEN c.output_map ELSE {}]

\* Step.to_dict; a config object is truthy whatever its fields hold
Step_to_dict(s) ==
    [keys |-> {"id", "name", "type"}
              \cup WithKey(s.attributes # <<>>, "attributes")
              \cup WithKey(s.labels # <<>>, "labels")
              \cup WithKey(s.http.set, "http")
              \cup WithKey(s.script.set, "script")
              \cup WithKey(s.predicate.set, "predicate")
              \cup WithKey(s.flow.set, "flow")
              \cup WithKey(s.memoizable, "memoizable"),
     id |-> s.id,
     name |-> s.name,
     type |-> s.type,
     attributes |-> [i \in 1..Len(s.attributes) |->
                        [name |-> s.attributes[i].name,
                         spec |-> AttributeSpec_to_dict(s.attributes[i])]],
     labels |-> s.labels,
     http |-> IF s.http.set THEN HTTPConfig_to_dict(s.http) ELSE NoHTTPWire,
     script |-> IF s.script.set THEN ScriptConfig_to_dict(s.script)
                                ELSE NoScriptWire,
     predicate |-> IF s.predicate.set THEN ScriptConfig_to_dict(s.predicate)
                                      ELSE NoScriptWire,
     flow |-> IF s.flow.set THEN FlowConfig_to_dict(s.flow) ELSE NoFlowWire,
     memoizable |-> s.memoizable]

\* d.get(key, default) of a dictionary of this form
WireGet(d, key, value, default) == IF key \in d.keys THEN value ELSE default

\* AttributeRole(v), AttributeType(v), ScriptLanguage(v), StepType(v): the
\* member with that value, which compares equal to the value
Enum(values, v) == IF v \in values THEN v ELSE "ValueError"

ScriptLanguages == {"ale", "lua"}

\* Client._parse_step
_parse_step(data) ==
    [id |-> data.id,
     name |-> data.name,
     type |-> Enum(StepTypes, data.type),
     attributes |->
        LET items == WireGet(data, "attributes", data.attributes, <<>>) IN
        [i \in 1..Len(items) |->
            LET spec_data == items[i].spec IN
            [name |-> items[i].name,
             role |-> Enum(AttributeRoles, spec_data.role),
             type |-> Enum(AttributeTypes, spec_data.type),
             default |-> WireGet(spec_data, "default", spec_data.default, ""),
             for_each |-> WireGet(spec_data, "for_each", spec_data.for_each,
                                  FALSE)]],
     labels |-> WireGet(data, "labels", data.labels, <<>>),
     http |->
        IF "http" \in data.keys
          THEN LET http_data == data.http IN
               [set |-> TRUE,
                endpoint |-> http_data.endpoint,
                health_check |-> WireGet(http_data, "health_check",
                                         http_data.health_check, ""),
                timeout |-> WireGet(http_data, "timeout", http_data.timeout, 0)]
          ELSE NoHTTP,
     script |->
        IF "script" \in data.keys
          THEN [set |-> TRUE,
                language |-> Enum(ScriptLanguages, data.script.language),
                script |-> data.script.script]
          ELSE NoScript,
     predicate |->
        IF "predicate" \in data.keys
          THEN [set |-> TRUE,
                language |-> Enum(ScriptLanguages, data.predicate.language),
                script |-> data.predicate.script]
          ELSE NoPredicate,
     flow |->
        IF "flow" \in data.keys
          THEN [set |-> TRUE, goals |-> data.flow.goals, input_map |-> {},
                output_map |-> {}]
          ELSE NoFlow,
     memoizable |-> WireGet(data, "memoizable", data.memoizable, FALSE)]

\* The Steps put on the wire: every combination of the fields below that
\* _validate_step accepts (work_config, which no builder sets, is None)
WireAttributes ==
    {<<>>,
     <<[name |-> "a", role |-> "optional", type |-> "number", default |-> "1",
        for_each |-> FALSE]>>,
     <<[name |-> "a", role |-> "required", type |-> "array", default |-> "",
        for_each |-> TRUE]>>}

WireSteps ==
    {s \in [id : {"test-step"},
            name : {"Test Step"},
            type : StepTypes,
            attributes : WireAttributes,
            labels : {<<>>, <<<<"k", "v">>>>},
            http : {NoHTTP}
                   \cup [set : {TRUE}, endpoint : {"http://host/step"},
                         health_check : {"", "http://host/hc"},
                         timeout : {0, 30, -1}],
            script : {NoScript,
                      [set |-> TRUE, language |-> "ale", script |-> "(x)"]},
            predicate : {NoPredicate,
                         [set |-> TRUE, language |-> "lua", script |-> "(p)"]},
            flow : {NoFlow}
                   \cup [set : {TRUE}, goals : {<<"s1">>},
                         input_map : {{}, {<<"in", "x">>}},
                         output_map : {{}, {<<"out", "y">>}}],
            memoizable : BOOLEAN] :
        _validate_step(s) = ""}

\* step.to_dict()
ToDict ==
    /\ wirePc = "step"
    /\ wire' = Step_to_dict(wireStep)
    /\ wirePc' = "wire"
    /\ UNCHANGED <<wireStep, wireParsed, nonWireVars>>

\* client._parse_step(data)
ParseStep ==
    /\ wirePc = "wire"
    /\ wireParsed' = _parse_step(wire)
    /\ wirePc' = "parsed"
    /\ UNCHANGED <<wireStep, wire, nonWireVars>>

WireInit ==
    /\ wirePc = "step"
    /\ wireStep \in WireSteps
    /\ wire = NoWire
    /\ wireParsed = NoStep
    /\ StartIdle
    /\ nonJsonIsNone = TRUE
    /\ ServerIdle
    /\ WebhookIdle
    /\ ValidateIdle
    /\ BuilderIdle
    /\ KebabIdle
    /\ FlowStartIdle
    /\ ClientIdle
    /\ WorkersIdle

WireNext == ToDict \/ ParseStep

SpecWire == WireInit /\ [][WireNext]_vars

-----------------------------------------------------------------------------
(* StepBuilder and FlowBuilder objects and their mutators.  heap holds the  *)
(* dicts and lists (attributes, labels; goals, initial state) by address,   *)
(* bs the builder objects, whose collection fields are addresses.           *)

\* d[key] = e on an insertion-ordered dict: the entry at position i replaced
RECURSIVE Replace(_, _, _)
Replace(d, i, e) ==
    IF d = <<>> THEN <<>>
    ELSE <<IF i = 1 THEN e ELSE Head(d)>> \o Replace(Tail(d), i - 1, e)

AttrIndex(d, name) == {i \in 1..Len(d) : d[i].name = name}
LabelIndex(d, key) == {i \in 1..Len(d) : d[i][1] = key}

\* new_attrs[name] = AttributeSpec(...)
SetAttribute(d, spec) ==
    IF AttrIndex(d, spec.name) = {} THEN Append(d, spec)
    ELSE Replace(d, CHOOSE i \in AttrIndex(d, spec.name) : TRUE, spec)

\* new_labels[key] = value
SetLabel(d, key, value) ==
    IF LabelIndex(d, key) = {} THEN Append(d, <<key, value>>)
    ELSE Replace(d, CHOOSE i \in LabelIndex(d, key) : TRUE, <<key, value>>)

\* new_labels.update(labels)
RECURSIVE UpdateLabels(_, _)
UpdateLabels(d, labels) ==
    IF labels = <<>> THEN d
    ELSE UpdateLabels(SetLabel(d, Head(labels)[1], Head(labels)[2]),
                      Tail(labels))

\* Mutant: the collection is used in place instead of being copied
dictAlias(h, addr) == [heap |-> h, addr |-> addr]

\* dict(d) and list(l): a new collection with the same contents
dict(h, addr) == [heap |-> Append(h, h[addr]), addr |-> Len(h) + 1]

\* A collection made by the caller or by the mutator: list(goal_ids), args
NewObject(h, value) == [heap |-> Append(h, value), addr |-> Len(h) + 1]

\* _copy: copy.copy(self), then setattr on the copy; `new` is the copy after
\* the setattr calls
_copy(objs, self, new) == [objs |-> Append(objs, new), result |-> Len(objs) + 1]

\* The mutator called on bs[self] returns the builder c.result
ReturnArgs(op, arg, args, self, h, c) ==
    /\ heap' = h
    /\ bs' = c.objs
    /\ lastOp' = [op |-> op, arg |-> arg, args |-> args, on |-> self,
                  result |-> c.result, raised |-> ""]
    /\ UNCHANGED <<kind, built, nonBuilderVars>>

Return(op, arg, self, h, c) == ReturnArgs(op, arg, <<>>, self, h, c)

CanMutate(k) == kind = k /\ ~built.done /\ Len(bs) < MaxBuilders

\* The attribute mutators: copy the dict, assign the entry, _copy
SetAttributeAndCopy(op, self, spec) ==
    LET new_attrs == dict(heap, bs[self].attributes)
        h == [new_attrs.heap EXCEPT ![new_attrs.addr] = SetAttribute(@, spec)]
    IN Return(op, spec.name, self, h,
              _copy(bs, self, [bs[self] EXCEPT !.attributes = new_attrs.addr]))

\* StepBuilder.with_id
With_id ==
    /\ CanMutate("step")
    /\ \E self \in 1..Len(bs), step_id \in {"", "other-step"} :
          Return("with_id", step_id, self, heap,
                 _copy(bs, self, [bs[self] EXCEPT !.id = step_id]))

\* StepBuilder.required
Required ==
    /\ CanMutate("step")
    /\ \E self \in 1..Len(bs), attr_type \in {"array"} :
          SetAttributeAndCopy("required", self,
              [name |-> "a", role |-> "required", type |-> attr_type,
               default |-> "", for_each |-> FALSE])

\* StepBuilder.optional
Optional ==
    /\ CanMutate("step")
    /\ \E self \in 1..Len(bs), default \in {"1", "true"} :
          SetAttributeAndCopy("optional", self,
              [name |-> "a", role |-> "optional", type |-> "number",
               default |-> default, for_each |-> FALSE])

\* StepBuilder.const
Const ==
    /\ CanMutate("step")
    /\ \E self \in 1..Len(bs), value \in {"", "\"s\""} :
          SetAttributeAndCopy("const", self,
              [name |-> "c", role |-> "const", type |-> "string",
               default |-> value, for_each |-> FALSE])

\* StepBuilder.output
Output ==
    /\ CanMutate("step")
    /\ \E self \in 1..Len(bs), name \in {"a"} :
          SetAttributeAndCopy("output", self,
              [name |-> name, role |-> "output", type |-> "array",
               default |-> "", for_each |-> FALSE])

\* Mutant: the rebuilt AttributeSpec loses the default
ForEachSpecNoDefault(name, existing) ==
    [name |-> name, role |-> existing.role, type |-> existing.type,
     default |-> "", for_each |-> TRUE]

\* builder.py:123-128: the AttributeSpec rebuilt with for_each=True
ForEachSpec(name, existing) ==
    [name |-> name, role |-> existing.role, type |-> existing.type,
     default |-> existing.default, for_each |-> TRUE]

\* StepBuilder.with_for_each: raises for a name that is not defined
With_for_each ==
    /\ CanMutate("step")
    /\ \E self \in 1..Len(bs), name \in {"a", "b"} :
          LET attrs == heap[bs[self].attributes] IN
          IF AttrIndex(attrs, name) = {}
          THEN /\ lastOp' = [op |-> "with_for_each", arg |-> name,
                             args |-> <<>>, on |-> self,
                             result |-> 0,
                             raised |-> "StepValidationError"]
               /\ UNCHANGED <<kind, heap, bs, built, nonBuilderVars>>
          ELSE LET existing == attrs[CHOOSE i \in AttrIndex(attrs, name) : TRUE]
               IN SetAttributeAndCopy("with_for_each", self,
                                      ForEachSpec(name, existing))

\* StepBuilder.with_label
With_label ==
    /\ CanMutate("step")
    /\ \E self \in 1..Len(bs), value \in {"v"} :
          LET new_labels == dict(heap, bs[self].labels)
              h == [new_labels.heap EXCEPT
                       ![new_labels.addr] = SetLabel(@, "k", value)]
          IN Return("with_label", "k", self, h,
                    _copy(bs, self, [bs[self] EXCEPT !.labels = new_labels.addr]))

\* StepBuilder.with_labels
With_labels ==
    /\ CanMutate("step")
    /\ \E self \in 1..Len(bs), labels \in {<<<<"k", "z">>, <<"j", "y">>>>} :
          LET new_labels == dict(heap, bs[self].labels)
              h == [new_labels.heap EXCEPT
                       ![new_labels.addr] = UpdateLabels(@, labels)]
          IN Return("with_labels", "", self, h,
                    _copy(bs, self, [bs[self] EXCEPT !.labels = new_labels.addr]))

\* StepBuilder.with_endpoint
With_endpoint ==
    /\ CanMutate("step")
    /\ \E self \in 1..Len(bs), url \in {"", "http://host/step"} :
          Return("with_endpoint", url, self, heap,
                 _copy(bs, self, with_endpoint(bs[self], url)))

\* StepBuilder.with_health_check
With_health_check ==
    /\ CanMutate("step")
    /\ \E self \in 1..Len(bs), url \in {"http://host/health"} :
          Return("with_health_check", url, self, heap,
                 _copy(bs, self, with_health_check(bs[self], url)))

\* StepBuilder.with_timeout
With_timeout ==
    /\ CanMutate("step")
    /\ \E self \in 1..Len(bs), ms \in {30} :
          Return("with_timeout", "", self, heap,
                 _copy(bs, self,
                       [bs[self] EXCEPT !.http =
                           [set |-> TRUE,
                            endpoint |-> IF @.set THEN @.endpoint ELSE "",
                            health_check |-> IF @.set THEN @.health_check ELSE "",
                            timeout |-> ms]]))

\* Mutant: turning the builder into a script step drops its HTTP config
with_script_languageClearsHTTP(b, language, script) ==
    [b EXCEPT !.script = [set |-> TRUE, language |-> language,
                          script |-> script],
              !.type = "script",
              !.http = NoHTTP]

\* StepBuilder.with_script_language
with_script_language(b, language, script) ==
    [b EXCEPT !.script = [set |-> TRUE, language |-> language,
                          script |-> script],
              !.type = "script"]

\* StepBuilder.with_script: with_script_language(ScriptLanguage.ALE, script)
With_script ==
    /\ CanMutate("step")
    /\ \E self \in 1..Len(bs), script \in {"(x)"} :
          Return("with_script", script, self, heap,
                 _copy(bs, self, with_script_language(bs[self], "ale", script)))

With_script_language ==
    /\ CanMutate("step")
    /\ \E self \in 1..Len(bs), script \in {""} :
          Return("with_script_language", script, self, heap,
                 _copy(bs, self, with_script_language(bs[self], "lua", script)))

\* StepBuilder.with_predicate
With_predicate ==
    /\ CanMutate("step")
    /\ \E self \in 1..Len(bs) :
          Return("with_predicate", "", self, heap,
                 _copy(bs, self,
                       [bs[self] EXCEPT !.predicate =
                           [set |-> TRUE, language |-> "ale", script |-> "(p)"]]))

\* StepBuilder.with_flow_goals
With_flow_goals ==
    /\ CanMutate("step")
    /\ \E self \in 1..Len(bs), goal_ids \in {<<>>, <<"s1">>} :
          Return("with_flow_goals", "", self, heap,
                 _copy(bs, self,
                       [bs[self] EXCEPT
                           !.flow = [set |-> TRUE, goals |-> goal_ids,
                                     input_map |-> IF @.set THEN @.input_map ELSE {},
                                     output_map |-> IF @.set THEN @.output_map ELSE {}],
                           !.type = "flow"]))

\* StepBuilder.with_flow_input_map
With_flow_input_map ==
    /\ CanMutate("step")
    /\ \E self \in 1..Len(bs), mapping \in {{<<"in", "x">>}} :
          Return("with_flow_input_map", "", self, heap,
                 _copy(bs, self,
                       [bs[self] EXCEPT
                           !.flow = [set |-> TRUE,
                                     goals |-> IF @.set THEN @.goals ELSE <<>>,
                                     input_map |-> mapping,
                                     output_map |-> IF @.set THEN @.output_map ELSE {}],
                           !.type = "flow"]))

\* StepBuilder.with_flow_output_map
With_flow_output_map ==
    /\ CanMutate("step")
    /\ \E self \in 1..Len(bs), mapping \in {{<<"out", "y">>}} :
          Return("with_flow_output_map", "", self, heap,
                 _copy(bs, self,
                       [bs[self] EXCEPT
                           !.flow = [set |-> TRUE,
                                     goals |-> IF @.set THEN @.goals ELSE <<>>,
                                     input_map |-> IF @.set THEN @.input_map ELSE {},
                                     output_map |-> mapping],
                           !.type = "flow"]))

\* StepBuilder.with_async_execution
With_async_execution ==
    /\ CanMutate("step")
    /\ \E self \in 1..Len(bs) :
          Return("with_async_execution", "", self, heap,
                 _copy(bs, self, [bs[self] EXCEPT !.type = "async"]))

\* StepBuilder.with_sync_execution
With_sync_execution ==
    /\ CanMutate("step")
    /\ \E self \in 1..Len(bs) :
          Return("with_sync_execution", "", self, heap,
                 _copy(bs, self, [bs[self] EXCEPT !.type = "sync"]))

\* StepBuilder.with_memoizable
With_memoizable ==
    /\ CanMutate("step")
    /\ \E self \in 1..Len(bs) :
          Return("with_memoizable", "", self, heap,
                 _copy(bs, self, [bs[self] EXCEPT !.memoizable = TRUE]))

\* StepBuilder.update
Update ==
    /\ CanMutate("step")
    /\ \E self \in 1..Len(bs) :
          Return("update", "", self, heap,
                 _copy(bs, self, [bs[self] EXCEPT !.dirty = TRUE]))

\* The fields of a StepBuilder object with its collections read from the heap
StepBuilderView(b, h) ==
    [b EXCEPT !.attributes = h[b.attributes], !.labels = h[b.labels]]

\* Mutant: build() hands the step out without running the validator
buildUnvalidated(b) == [error |-> "", step |-> AssembleStep(b)]

\* StepBuilder.build: the Step, or the StepValidationError raised
build(b) ==
    LET s == AssembleStep(b) IN
    [error |-> _validate_step(s),
     step |-> IF _validate_step(s) = "" THEN s ELSE NoStep]

BuildStep ==
    /\ kind = "step"
    /\ ~built.done
    /\ \E self \in 1..Len(bs) :
          LET r == build(StepBuilderView(bs[self], heap)) IN
          /\ built' = [done |-> TRUE, error |-> r.error, step |-> r.step]
          /\ lastOp' = [op |-> "build", arg |-> "", args |-> <<>>, on |-> self,
                        result |-> 0,
                        raised |-> IF r.error = "" THEN ""
                                   ELSE "StepValidationError"]
    /\ UNCHANGED <<kind, heap, bs, nonBuilderVars>>

\* Mutant: the goal is put in front of the list
appendFront(l, x) == <<x>> \o l

\* list.append
append(l, x) == Append(l, x)

\* FlowBuilder.with_goal
With_goal ==
    /\ CanMutate("flow")
    /\ \E self \in 1..Len(bs), step_id \in {"s1", "s2"} :
          LET new_goals == dict(heap, bs[self].goals)
              h == [new_goals.heap EXCEPT
                       ![new_goals.addr] = append(@, step_id)]
          IN ReturnArgs("with_goal", step_id, <<step_id>>, self, h,
                    _copy(bs, self, [bs[self] EXCEPT !.goals = new_goals.addr]))

\* FlowBuilder.with_goals
With_goals ==
    /\ CanMutate("flow")
    /\ \E self \in 1..Len(bs), step_ids \in {<<>>, <<"s2", "s1">>} :
          LET new_goals == NewObject(heap, step_ids) IN
          ReturnArgs("with_goals", "", step_ids, self, new_goals.heap,
                 _copy(bs, self, [bs[self] EXCEPT !.goals = new_goals.addr]))

\* FlowBuilder.with_initial_state
With_initial_state ==
    /\ CanMutate("flow")
    /\ \E self \in 1..Len(bs), args \in {<<>>, <<<<"x", "1">>>>} :
          LET new_state == NewObject(heap, args) IN
          Return("with_initial_state", "", self, new_state.heap,
                 _copy(bs, self,
                       [bs[self] EXCEPT !.initial_state = new_state.addr]))

\* The fields of a FlowBuilder object with its collections read from the heap
FlowBuilderView(b, h) ==
    [b EXCEPT !.goals = h[b.goals], !.initial_state = h[b.initial_state]]

\* FlowBuilder.start: one session.post of {id, goals, init}; any exception,
\* that of raise_for_status included, is raised as FlowError
StartFlow ==
    /\ kind = "flow"
    /\ ~flowStart.done
    /\ \E self \in 1..Len(bs), answer \in EngineAnswers :
          /\ flowPosts' = Append(flowPosts,
                [url |-> Join(BaseUrl(DefaultBaseUrl)) \o "/engine/flow",
                 body |-> [id |-> bs[self].flow_id,
                           goals |-> heap[bs[self].goals],
                           init |-> heap[bs[self].initial_state]]])
          /\ flowStart' = [done |-> TRUE, on |-> self, answer |-> answer,
                           raised |-> IF answer = 0 \/ raise_for_status(answer)
                                        THEN "FlowError" ELSE ""]
    /\ UNCHANGED <<builderVars, startVars, serverVars, webhookVars,
                   validateVars, kebabVars, clientVars, workerVars, wireVars>>

\* Client.new_step(name) or Client.new_flow(flow_id): a fresh builder
BuilderInit ==
    /\ StartIdle
    /\ nonJsonIsNone = TRUE
    /\ ServerIdle
    /\ WebhookIdle
    /\ ValidateIdle
    /\ kind \in {"step", "flow"}
    /\ heap = <<<<>>, <<>>>>
    /\ bs = IF kind = "step"
              THEN <<[name |-> Join(TestStepName),
                      id |-> Join(InitialId(TestStepName, <<>>)),
                      type |-> "sync",
                      attributes |-> 1, labels |-> 2, http |-> NoHTTP,
                      script |-> NoScript, predicate |-> NoPredicate,
                      flow |-> NoFlow, memoizable |-> FALSE, dirty |-> FALSE]>>
              ELSE <<[flow_id |-> "flow-1", goals |-> 1, initial_state |-> 2]>>
    /\ lastOp = [op |-> "", arg |-> "", args |-> <<>>, on |-> 0, result |-> 0,
                 raised |-> ""]
    /\ built = [done |-> FALSE, error |-> "", step |-> NoStep]
    /\ RestIdle

BuilderNext ==
    \/ With_id \/ Required \/ Optional \/ Const \/ Output \/ With_for_each
    \/ With_label \/ With_labels
    \/ With_endpoint \/ With_health_check \/ With_timeout
    \/ With_script \/ With_script_language \/ With_predicate
    \/ With_flow_goals \/ With_flow_input_map \/ With_flow_output_map
    \/ With_async_execution \/ With_sync_execution \/ With_memoizable \/ Update
    \/ BuildStep
    \/ With_goal \/ With_goals \/ With_initial_state
    \/ StartFlow

SpecBuilder == BuilderInit /\ [][BuilderNext]_vars

-----------------------------------------------------------------------------
(* The three terminal operations of a StepBuilder: build(), register() and  *)
(* start(handler)                                                           *)

\* Mutant: register() submits the step before it is validated
registerUnvalidated(b, o) ==
    [step |-> AssembleStep(b),
     calls |-> <<Call("register", o)>>,
     registered |-> o.ok,
     raised |-> IF _validate_step(AssembleStep(b)) # ""
                  THEN "StepValidationError"
                ELSE IF o.ok THEN "" ELSE "StepRegistrationError"]

\* Mutant: register() follows the protocol of create_step_server for a
\* builder marked for update
registerOrUpdate(b, o) ==
    IF build(b).error # ""
    THEN [step |-> NoStep, calls |-> <<>>, registered |-> FALSE,
          raised |-> "StepValidationError"]
    ELSE [step |-> build(b).step,
          calls |-> <<Call(IF b.dirty THEN "update" ELSE "register", o)>>,
          registered |-> o.ok,
          raised |-> IF o.ok THEN "" ELSE "StepRegistrationError"]

\* Mutant: register() wraps a ClientError only; other exceptions pass through
registerWrapsClientError(b, o) ==
    IF build(b).error # ""
    THEN [step |-> NoStep, calls |-> <<>>, registered |-> FALSE,
          raised |-> "StepValidationError"]
    ELSE [step |-> build(b).step,
          calls |-> <<Call("register", o)>>,
          registered |-> o.ok,
          raised |-> IF o.ok THEN ""
                     ELSE IF o.cls = "ClientError" THEN "StepRegistrationError"
                     ELSE o.cls]

\* StepBuilder.register when the engine answers register_step with o: build,
\* one register_step call, any exception wrapped as StepRegistrationError
register(b, o) ==
    IF build(b).error # ""
    THEN [step |-> NoStep, calls |-> <<>>, registered |-> FALSE,
          raised |-> "StepValidationError"]
    ELSE [step |-> build(b).step,
          calls |-> <<Call("register", o)>>,
          registered |-> o.ok,
          raised |-> IF o.ok THEN "" ELSE "StepRegistrationError"]

\* builder.build() called by the user
BuildOnly ==
    /\ entry = "build"
    /\ pc = "start"
    /\ step' = build(builder).step
    /\ IF build(builder).error # ""
         THEN pc' = "raised" /\ raised' = "StepValidationError"
         ELSE pc' = "returned" /\ UNCHANGED raised
    /\ UNCHANGED <<env, builder, attempt, registered, calls, slept, entry, nonStartVars>>

\* builder.register() called by the user
Register ==
    /\ entry = "register"
    /\ pc = "start"
    /\ \E o \in EngineOutcomes :
          LET r == register(builder, o) IN
          /\ step' = r.step
          /\ calls' = r.calls
          /\ registered' = r.registered
          /\ raised' = r.raised
          /\ pc' = IF r.raised = "" THEN "returned" ELSE "raised"
    /\ UNCHANGED <<env, builder, attempt, slept, entry, nonStartVars>>

EntryInit ==
    /\ env = {}
    /\ builder \in Builders
    /\ step = NoStep
    /\ pc = "start"
    /\ attempt = 1
    /\ registered = FALSE
    /\ calls = <<>>
    /\ slept = <<>>
    /\ raised = ""
    /\ entry \in {"build", "register", "start"}
    /\ nonJsonIsNone = TRUE
    /\ ServerIdle
    /\ WebhookIdle
    /\ ValidateIdle
    /\ BuilderIdle
    /\ RestIdle

EntryNext ==
    \/ BuildOnly
    \/ Register
    \/ Build \/ UpdateStep \/ RegisterStep \/ FallbackUpdate \/ AppRun

SpecEntry == EntryInit /\ [][EntryNext]_vars

-----------------------------------------------------------------------------
(* Properties of the registration protocol, checked under Spec *)

CallIdx == 1..Len(calls)
IsConflict(c) ==
    c.op = "register" /\ c.outcome.cls = "ClientError" /\ c.outcome.status = 409

\* The loop iterations that made a call and ended in the except clause
FailedAttempts ==
    {a \in 1..(MAX_REGISTRATION_ATTEMPTS + 1) :
        \E i \in CallIdx : /\ calls[i].attempt = a
                           /\ ~calls[i].outcome.ok
                           /\ ~IsConflict(calls[i])}

\* C1: the server listens (app.run) only after a register_step or
\* update_step call has returned successfully; and that call is the last
\* engine call made.
C1_ListenOnlyAfterRegistration ==
    pc = "serving" =>
        /\ calls # <<>>
        /\ calls[Len(calls)].outcome.ok
        /\ calls[Len(calls)].op \in {"register", "update"}

C1_Witness ==
    /\ pc = "serving"
    /\ Len(calls) >= 3
    /\ \E i \in CallIdx : ~calls[i].outcome.ok

\* C2: when every attempt fails, create_step_server makes exactly
\* MAX_REGISTRATION_ATTEMPTS (5) attempts, then raises, and the server
\* never listens: an error of the engine is raised only when attempts 1..5
\* have all failed, five failed attempts are followed by the raise and by
\* no further call, and a run without a successful call is never serving.
C2_FiveAttemptsThenRaise ==
    /\ (pc = "raised" /\ raised # "StepValidationError")
          => FailedAttempts = 1..MAX_REGISTRATION_ATTEMPTS
    /\ Cardinality(FailedAttempts) >= MAX_REGISTRATION_ATTEMPTS
          => /\ pc = "raised"
             /\ raised # ""
             /\ FailedAttempts = 1..MAX_REGISTRATION_ATTEMPTS
    /\ (\A i \in CallIdx : ~calls[i].outcome.ok) => pc # "serving"

C2_Witness ==
    /\ pc = "raised"
    /\ raised = "ClientError"
    /\ FailedAttempts = 1..5
    /\ \A i \in CallIdx : ~calls[i].outcome.ok

\* C3 (as claimed): when the attempts are exhausted, the error raised to
\* the caller is a StepRegistrationError, whatever the last call failed
\* with.
C3_RaisesRegistrationError ==
    (pc = "raised" /\ calls # <<>>) => raised = "StepRegistrationError"

\* C4: a 409 on register_step is followed by exactly one update_step call
\* of the same attempt; when the engine accepts that update, no further
\* engine call is made, no error is raised, and the server is started.
C4_ConflictFallsBackToUpdate ==
    \A i \in CallIdx :
        IsConflict(calls[i]) =>
            /\ i = Len(calls) => pc = "fallback"
            /\ i < Len(calls) =>
                 /\ calls[i + 1].op = "update"
                 /\ calls[i + 1].attempt = calls[i].attempt
                 /\ Cardinality({k \in CallIdx : /\ calls[k].op = "update"
                                                 /\ calls[k].attempt = calls[i].attempt}) = 1
                 /\ calls[i + 1].outcome.ok =>
                      /\ Len(calls) = i + 1
                      /\ raised = ""
                      /\ registered
                      /\ pc \in {"loopdone", "serving"}

C4_Witness ==
    /\ pc = "serving"
    /\ raised = ""
    /\ Len(calls) >= 2
    /\ IsConflict(calls[Len(calls) - 1])
    /\ calls[Len(calls)].op = "update"
    /\ calls[Len(calls)].outcome.ok

\* C5: for a builder marked for update, every attempt calls update_step
\* directly (one call per attempt) and register_step is never called.
C5_DirtyBuilderOnlyUpdates ==
    builder.dirty =>
        \A i \in CallIdx : calls[i].op = "update" /\ calls[i].attempt = i

C5_Witness ==
    /\ builder.dirty
    /\ pc = "serving"
    /\ Len(calls) >= 2

-----------------------------------------------------------------------------
(* Properties of the running server, checked under SpecServer *)

Answered == served > 0
PanickedBody(msg) ==
    {<<"success", JBool(FALSE)>>,
     <<"error", JStr("Step handler panicked: " \o msg)>>}

\* C6: an error of the handler other than an HTTPError is answered with
\* HTTP 200 and StepResult{success:false, error:"Step handler panicked:
\* <message>"}, and the server keeps serving.
C6_PanicIsFailedResult ==
    (Answered /\ last.handler.kind = "raise") =>
        /\ last.resp.status = 200
        /\ last.resp.body = PanickedBody(last.handler.msg)
        /\ pc = "serving"

\* a request answered normally after an earlier handler error
C6_Witness ==
    /\ panics >= 1
    /\ served >= 2
    /\ last.handler.kind = "return"
    /\ last.handler.success
    /\ last.resp.status = 200
    /\ pc = "serving"

\* The wire form of StepResult(success, outputs, error), written out
WireForm(success, outputs, error) ==
    IF outputs = {} /\ error = ""
      THEN {<<"success", JBool(success)>>}
    ELSE IF outputs = {}
      THEN {<<"success", JBool(success)>>, <<"error", JStr(error)>>}
    ELSE IF error = ""
      THEN {<<"success", JBool(success)>>, <<"outputs", JMap(outputs)>>}
    ELSE {<<"success", JBool(success)>>, <<"outputs", JMap(outputs)>>,
          <<"error", JStr(error)>>}

\* C7: a StepResult returned by the handler is answered with its wire
\* form at HTTP 200, whatever its success flag.
C7_ResultIs200 ==
    (Answered /\ last.handler.kind = "return") =>
        /\ last.resp.status = 200
        /\ last.resp.body = WireForm(last.handler.success, last.handler.outputs,
                                     last.handler.error)

C7_Witness ==
    /\ Answered
    /\ last.handler.kind = "return"
    /\ ~last.handler.success
    /\ last.handler.error # ""
    /\ last.resp.status = 200

\* C8: an HTTPError(status, message) raised by the handler is answered
\* with exactly that status and the body {error: message}.
C8_HTTPErrorPropagates ==
    (Answered /\ last.handler.kind = "http") =>
        /\ last.resp.status = last.handler.status
        /\ last.resp.body = {<<"error", JStr(last.handler.msg)>>}

C8_Witness ==
    /\ Answered
    /\ last.handler.kind = "http"
    /\ last.handler.status = 409
    /\ last.handler.msg = "conflict"
    /\ last.resp.status = 409

InvalidJsonResp == [status |-> 400, body |-> {<<"error", JStr("Invalid JSON")>>}]

\* C9 (as claimed): a missing body, malformed text or JSON null is
\* answered with HTTP 400 {error:"Invalid JSON"} and the handler is not
\* invoked.
C9_InvalidBodyIs400 ==
    (Answered /\ last.body.kind \in {"nojson", "empty", "malformed", "null"}) =>
        /\ last.resp = InvalidJsonResp
        /\ ~last.invoked

IsStr(v) == v.t = "str"
Keys(body) == {p[1] : p \in body}

\* the StepResult wire form at HTTP 200
ShapeResult ==
    /\ last.resp.status = 200
    /\ "success" \in Keys(last.resp.body)
    /\ Keys(last.resp.body) \subseteq {"success", "outputs", "error"}

\* {error: string} at the status of the handler's HTTPError
ShapeHTTPError ==
    /\ last.handler.kind = "http"
    /\ last.resp.status = last.handler.status
    /\ Keys(last.resp.body) = {"error"}
    /\ \A p \in last.resp.body : IsStr(p[2])

\* {error: "Invalid JSON"} at HTTP 400
ShapeInvalidJson == last.resp = InvalidJsonResp

\* {error: string} at HTTP 500, for an exception raised in handle_step
\* outside the handler: the handler was not reached, or it returned a
\* value that cannot be serialised
ShapeServerError ==
    /\ last.resp.status = 500
    /\ Keys(last.resp.body) = {"error"}
    /\ \A p \in last.resp.body : IsStr(p[2])
    /\ last.handler.kind \in {"none", "other"}

HealthyResp ==
    [status |-> 200,
     body |-> {<<"status", JStr("healthy")>>, <<"service", JStr(step.id)>>}]

ValidBody(b) ==
    b.kind = "object" /\ b.arguments.p = "map" /\ b.metadata.p = "map"

\* C12: for a valid request body the handler is invoked, once, with the
\* body's arguments mapping and a context whose flow id is
\* metadata.flow_id ("" without one), whose step id is the served step's
\* and whose metadata is the request's metadata mapping.
C12_HandlerGetsContextAndArguments ==
    /\ handlerCalls <= served
    /\ (Answered /\ ValidBody(last.body)) =>
        /\ last.invoked
        /\ last.handler \in HandlerOutcomes
        /\ served = 1 => handlerCalls = 1
        /\ last.args = last.body.arguments
        /\ \A p \in last.body.metadata.m :
              p[1] = "flow_id" => last.ctx.flow_id = p[2]
        /\ (\A p \in last.body.metadata.m : p[1] # "flow_id")
              => last.ctx.flow_id = ""
        /\ last.ctx.step_id = step.id
        /\ last.ctx.metadata = last.body.metadata.m

C12_Witness ==
    /\ Answered
    /\ ValidBody(last.body)
    /\ last.body.arguments.m = {<<"value", "3">>}
    /\ last.ctx.flow_id = "flow-2"
    /\ last.ctx.metadata = {<<"flow_id", "flow-2">>, <<"webhook_url", "http://hook">>}
    /\ last.invoked

-----------------------------------------------------------------------------
(* Properties of AsyncContext, checked under SpecWebhook *)

\* C13: each completion call issues exactly one POST, to webhook_url,
\* whose body is the wire form of StepResult(True, outputs) for
\* success(outputs), of StepResult(False, error=message) for fail(message)
\* and of result for complete(result).
C13_OnePostPerCompletion ==
    /\ Len(posts) = Len(completions)
    /\ \A i \in 1..Len(completions) :
          LET c == completions[i] IN
          /\ posts[i].call = i
          /\ posts[i].url = actx.webhook_url
          /\ c.prim = "success" =>
                /\ c.result.success /\ c.result.error = ""
                /\ posts[i].body = WireForm(TRUE, c.result.outputs, "")
          /\ c.prim = "fail" =>
                /\ ~c.result.success
                /\ posts[i].body = WireForm(FALSE, {}, c.result.error)
          /\ c.prim = "complete" =>
                posts[i].body = WireForm(c.result.success, c.result.outputs,
                                         c.result.error)

C13_Witness ==
    /\ Len(completions) = 2
    /\ completions[1].prim = "success"
    /\ posts[1].body = {<<"success", JBool(TRUE)>>,
                        <<"outputs", JMap({<<"result", "done">>})>>}
    /\ completions[2].prim = "fail"
    /\ posts[2].body = {<<"success", JBool(FALSE)>>, <<"error", JStr("x")>>}

\* C14 (as claimed): a non-2xx answer or a transport failure makes the
\* completion call raise WebhookError, after exactly one POST.
C14_Non2xxRaisesWebhookError ==
    \A i \in 1..Len(completions) :
        LET c == completions[i] IN
        (c.answer = 0 \/ c.answer < 200 \/ c.answer >= 300) =>
            /\ c.raised = "WebhookError"
            /\ Cardinality({k \in 1..Len(posts) : posts[k].call = i}) = 1

-----------------------------------------------------------------------------
(* Properties of the validator, checked under SpecValidate *)

\* The configuration a step's type calls for, and no other
ExactlyOneConfig(s) ==
    \/ /\ s.type \in {"sync", "async"}
       /\ s.http.set /\ s.http.endpoint # "" /\ ~s.script.set /\ ~s.flow.set
    \/ /\ s.type = "script"
       /\ s.script.set /\ s.script.script # "" /\ ~s.http.set /\ ~s.flow.set
    \/ /\ s.type = "flow"
       /\ s.flow.set /\ s.flow.goals # <<>> /\ ~s.http.set /\ ~s.script.set

Attrs(s) == {s.attributes[i] : i \in 1..Len(s.attributes)}

\* The five role / for_each cases
RoleOrForEachCase(a) ==
    \/ a.name = ""
    \/ a.role = "const" /\ a.default = ""
    \/ a.default # "" /\ a.role \notin {"optional", "const"}
    \/ a.for_each /\ a.role = "output"
    \/ a.for_each /\ a.type \notin {"array", "any"}

\* The messages of a rejection on the grounds of the default's JSON value
DefaultMessages ==
    UNION {{"Invalid default JSON for " \o n,
            "Default for " \o n \o " must be JSON string",
            "Default for " \o n \o " must be JSON number",
            "Default for " \o n \o " must be JSON boolean",
            "Default for " \o n \o " must be JSON object",
            "Default for " \o n \o " must be JSON array",
            "Default for " \o n \o " must be JSON null"} : n \in {"a", "b"}}

\* C17: a step whose identity and configuration are in order is rejected
\* whenever one of its attributes is in one of the five cases (empty name;
\* const without default; default on a role other than optional/const;
\* for_each on an output; for_each on a type other than array/any), and a
\* rejection with no attribute in those cases is one about a default's JSON.
C17_RoleAndForEachRules ==
    (vresult.done /\ ExactlyOneConfig(vstep)) =>
        /\ (\E a \in Attrs(vstep) : RoleOrForEachCase(a)) => vresult.error # ""
        /\ (vresult.error # "" /\ \A a \in Attrs(vstep) : ~RoleOrForEachCase(a))
              => vresult.error \in DefaultMessages
        /\ (\A a \in Attrs(vstep) : ~RoleOrForEachCase(a) /\ a.default = "")
              => vresult.error = ""

C17_Witness ==
    /\ vresult.done
    /\ ExactlyOneConfig(vstep)
    /\ Len(vstep.attributes) = 1
    /\ vstep.attributes[1] = [name |-> "a", role |-> "output", type |-> "array",
                              default |-> "", for_each |-> TRUE]
    /\ vresult.error = "ForEach not allowed for output attribute a"

\* The kind of a text under the JSON grammar
JSONKind(d) ==
    CASE d = "\"s\"" -> "string"
      [] d \in {"1", "1.5"} -> "number"
      [] d = "true" -> "boolean"
      [] d = "{}" -> "object"
      [] d = "[]" -> "array"
      [] d = "null" -> "null"
      [] OTHER -> "invalid"

\* C18 (as claimed): a non-empty default is accepted only if it is JSON of
\* the kind of the declared type (any kind for type any), and every
\* mismatched pair is rejected.
C18_DefaultMatchesType ==
    (/\ vresult.done
     /\ ExactlyOneConfig(vstep)
     /\ Len(vstep.attributes) = 1
     /\ vstep.attributes[1].default # ""
     /\ ~RoleOrForEachCase(vstep.attributes[1])) =>
        LET a == vstep.attributes[1] IN
        (vresult.error = "") <=>
            /\ JSONKind(a.default) # "invalid"
            /\ a.type = "any" \/ a.type = JSONKind(a.default)

-----------------------------------------------------------------------------
(* Properties of the builders, checked under SpecBuilder *)

\* The fields a mutator sets
Touched(op) ==
    CASE op = "with_id" -> {"id"}
      [] op \in {"required", "optional", "const", "output", "with_for_each"}
            -> {"attributes"}
      [] op \in {"with_label", "with_labels"} -> {"labels"}
      [] op \in {"with_endpoint", "with_health_check", "with_timeout"}
            -> {"http"}
      [] op \in {"with_script", "with_script_language"} -> {"script", "type"}
      [] op = "with_predicate" -> {"predicate"}
      [] op \in {"with_flow_goals", "with_flow_input_map",
                 "with_flow_output_map"} -> {"flow", "type"}
      [] op \in {"with_async_execution", "with_sync_execution"} -> {"type"}
      [] op = "with_memoizable" -> {"memoizable"}
      [] op = "update" -> {"dirty"}
      [] op \in {"with_goal", "with_goals"} -> {"goals"}
      [] op = "with_initial_state" -> {"initial_state"}
      [] OTHER -> {}

AttrNamed(attrs, name) == {attrs[i] : i \in AttrIndex(attrs, name)}

\* What the mutation op(arg) makes of the fields `old`
Applied(op, arg, old, new) ==
    /\ \A f \in (DOMAIN old) \ Touched(op) : new[f] = old[f]
    /\ op = "with_id" => new.id = arg
    /\ op \in {"required", "optional", "const", "output"} =>
          /\ \E a \in AttrNamed(new.attributes, arg) : a.role = op /\ ~a.for_each
          /\ \A i \in 1..Len(old.attributes) :
                old.attributes[i].name # arg
                    => old.attributes[i] \in Attrs(new)
    /\ op = "with_for_each" =>
          /\ \A a \in AttrNamed(old.attributes, arg) :
                [a EXCEPT !.for_each = TRUE] \in AttrNamed(new.attributes, arg)
          /\ Len(new.attributes) = Len(old.attributes)
    /\ op \in {"with_label", "with_labels"} =>
          /\ LabelIndex(new.labels, "k") # {}
          /\ \A i \in 1..Len(old.labels) :
                LabelIndex(new.labels, old.labels[i][1]) # {}
    /\ op = "with_endpoint" =>
          /\ new.http.set /\ new.http.endpoint = arg
          /\ new.http.health_check = old.http.health_check
          /\ new.http.timeout = old.http.timeout
    /\ op = "with_health_check" =>
          /\ new.http.set /\ new.http.health_check = arg
          /\ new.http.endpoint = old.http.endpoint
    /\ op = "with_timeout" =>
          /\ new.http.set /\ new.http.timeout = 30
          /\ new.http.endpoint = old.http.endpoint
    /\ op \in {"with_script", "with_script_language"} =>
          new.script.set /\ new.script.script = arg /\ new.type = "script"
    /\ op = "with_predicate" => new.predicate.set
    /\ op \in {"with_flow_goals", "with_flow_input_map", "with_flow_output_map"}
          => new.flow.set /\ new.type = "flow"
    /\ op = "with_async_execution" => new.type = "async"
    /\ op = "with_sync_execution" => new.type = "sync"
    /\ op = "with_memoizable" => new.memoizable
    /\ op = "update" => new.dirty
    /\ op = "with_goal" => new.goals = Append(old.goals, arg)

BuilderView(b, h) ==
    IF kind = "step" THEN StepBuilderView(b, h) ELSE FlowBuilderView(b, h)

\* C15: a mutator call leaves every existing builder as it was, the
\* contents of its attributes, labels and goals included, and when it
\* returns, returns a new builder object carrying the mutation.
C15_MutatorsLeaveBuildersUnchanged ==
    [][/\ Len(bs') >= Len(bs)
       /\ \A i \in 1..Len(bs) : BuilderView(bs'[i], heap') = BuilderView(bs[i], heap)
       /\ (lastOp' # lastOp /\ lastOp'.op # "build" /\ lastOp'.raised = "") =>
             /\ Len(bs') = Len(bs) + 1
             /\ lastOp'.result = Len(bs')
             /\ lastOp'.result # lastOp'.on
             /\ Applied(lastOp'.op, lastOp'.arg,
                        BuilderView(bs[lastOp'.on], heap),
                        BuilderView(bs'[lastOp'.result], heap'))]_vars

\* with_for_each on a builder made by an attribute mutator: three builders,
\* each with its own attributes
C15_Witness ==
    /\ kind = "step"
    /\ Len(bs) = 3
    /\ lastOp.op = "with_for_each" /\ lastOp.raised = "" /\ lastOp.on = 2
    /\ bs[2].attributes # bs[1].attributes
    /\ heap[bs[3].attributes] # heap[bs[2].attributes]
    /\ heap[bs[1].attributes] = <<>>

\* C16: a Step returned by build() has exactly the configuration its type
\* calls for (sync/async: http with an endpoint; script: a script; flow:
\* goals) and neither of the other two; a builder whose fields do not meet
\* this gets StepValidationError from build() and no Step.
C16_BuiltStepHasExactlyOneConfig ==
    built.done =>
        /\ built.error = "" => built.step # NoStep /\ ExactlyOneConfig(built.step)
        /\ built.error = "" =>
              built.step = AssembleStep(StepBuilderView(bs[lastOp.on], heap))
        /\ ~ExactlyOneConfig(AssembleStep(StepBuilderView(bs[lastOp.on], heap)))
              => /\ built.error # ""
                 /\ lastOp.raised = "StepValidationError"
                 /\ built.step = NoStep

C16_Witness ==
    /\ built.done
    /\ built.error = "Script config not allowed for HTTP steps"
    /\ built.step = NoStep
    /\ lastOp.raised = "StepValidationError"
    /\ bs[lastOp.on].type = "sync"
    /\ bs[lastOp.on].http.endpoint # ""
    /\ bs[lastOp.on].script.set

-----------------------------------------------------------------------------
(* Properties of build(), register() and start(), checked under SpecEntry *)

\* The step the operation validates: start() fills in the endpoint and the
\* health check first
Assembled ==
    IF entry = "start"
    THEN AssembleStep(with_health_check(
             with_endpoint(builder, Endpoint(env, builder.id)),
                  HealthEndpoint(env)))
    ELSE AssembleStep(builder)

\* C19: when the assembled step is invalid, build(), register() and start()
\* raise StepValidationError, no request has been sent to the engine, and
\* start() does not reach app.run.
C19_ValidationFailureSendsNothing ==
    /\ raised = "StepValidationError" =>
          calls = <<>> /\ ~registered /\ pc = "raised"
    /\ (pc # "start" /\ _validate_step(Assembled) # "") =>
          raised = "StepValidationError" /\ calls = <<>> /\ pc = "raised"
    /\ calls # <<>> => _validate_step(Assembled) = ""

C19_Witness ==
    /\ entry = "register"
    /\ builder.type = "script" /\ builder.script.set /\ builder.http.set
    /\ raised = "StepValidationError"
    /\ calls = <<>>

\* C20 (as claimed): register() follows the registration protocol: a builder
\* marked for update is submitted with update_step, and a 409 on
\* register_step is followed by an update_step call, not by an error.
C20_RegisterFollowsProtocol ==
    entry = "register" =>
        /\ (builder.dirty /\ calls # <<>>) => calls[1].op = "update"
        /\ \A i \in 1..Len(calls) :
              (calls[i].op = "register" /\ calls[i].outcome = Conflict) =>
                  /\ raised = ""
                  /\ i < Len(calls) /\ calls[i + 1].op = "update"

\* C20 (amended): register() submits the built step with one register_step
\* call whether or not the builder is marked for update, never calls
\* update_step, and raises StepRegistrationError for any failure of that
\* call, a 409 conflict included.
C20_RegisterCallsRegisterStepOnce ==
    (entry = "register" /\ pc # "start") =>
        /\ Len(calls) <= 1
        /\ \A i \in 1..Len(calls) : calls[i].op = "register"
        /\ _validate_step(Assembled) = "" => Len(calls) = 1
        /\ \A i \in 1..Len(calls) :
              /\ calls[i].outcome.ok => raised = "" /\ pc = "returned"
              /\ ~calls[i].outcome.ok =>
                    raised = "StepRegistrationError" /\ pc = "raised"

C20_Witness ==
    /\ entry = "register"
    /\ builder.dirty
    /\ calls = <<[op |-> "register", attempt |-> 1, outcome |-> Conflict]>>
    /\ raised = "StepRegistrationError"

\* C21: whatever error the client raises for the submission that register()
\* makes, a ClientError of any status or any other exception, the caller of
\* register() gets a StepRegistrationError.
C21_RegisterWrapsEveryFailure ==
    (entry = "register" /\ pc # "start") =>
        \A i \in 1..Len(calls) :
            \A o \in EngineOutcomes :
                (calls[i].outcome = o /\ ~o.ok) =>
                    /\ raised = "StepRegistrationError"
                    /\ pc = "raised"
                    /\ ~registered

C21_Witness ==
    /\ entry = "register"
    /\ calls = <<[op |-> "register", attempt |-> 1, outcome |-> OtherError]>>
    /\ raised = "StepRegistrationError"

-----------------------------------------------------------------------------
(* Further properties of the builders, checked under SpecBuilder *)

\* C22: with_for_each(name) raises StepValidationError exactly when name is
\* not among the receiver's attributes; otherwise the returned builder has
\* the attribute with the same role, type and default and for_each set, and
\* its other attributes as they were.
C22_WithForEach ==
    lastOp.op = "with_for_each" =>
        LET old == heap[bs[lastOp.on].attributes] IN
        /\ (lastOp.raised = "StepValidationError") <=>
              (AttrIndex(old, lastOp.arg) = {})
        /\ lastOp.raised # "" => lastOp.result = 0
        /\ lastOp.raised = "" =>
              LET new == heap[bs[lastOp.result].attributes] IN
              /\ Len(new) = Len(old)
              /\ \A i \in 1..Len(old) :
                    IF old[i].name = lastOp.arg
                    THEN /\ new[i].name = old[i].name
                         /\ new[i].role = old[i].role
                         /\ new[i].type = old[i].type
                         /\ new[i].default = old[i].default
                         /\ new[i].for_each
                    ELSE new[i] = old[i]

C22_Witness ==
    /\ lastOp.op = "with_for_each"
    /\ lastOp.raised = ""
    /\ heap[bs[lastOp.on].attributes] =
          <<[name |-> "c", role |-> "const", type |-> "string",
             default |-> "\"s\"", for_each |-> FALSE],
            [name |-> "a", role |-> "optional", type |-> "number",
             default |-> "1", for_each |-> FALSE]>>
    /\ heap[bs[lastOp.result].attributes][2] =
          [name |-> "a", role |-> "optional", type |-> "number",
           default |-> "1", for_each |-> TRUE]

-----------------------------------------------------------------------------
(* Properties of the default id, checked under SpecKebab *)

\* What character i of a name contributes to its kebab-case form
KebabAt(s, i) ==
    IF IsSeparator(s[i])
    THEN IF i > 1 /\ IsSeparator(s[i - 1]) THEN <<>> ELSE <<"-">>
    ELSE IF IsUpper(s[i]) /\ i > 1 /\ (IsLower(s[i - 1]) \/ IsDigit(s[i - 1]))
        THEN <<"-", lower(s[i])>>
    ELSE <<lower(s[i])>>

RECURSIVE KebabUpTo(_, _)
KebabUpTo(s, n) == IF n = 0 THEN <<>> ELSE KebabUpTo(s, n - 1) \o KebabAt(s, n)

\* C23: the id of a builder made by new_step(name), until with_id sets
\* another, is the name with a dash put between a lowercase letter or digit
\* and an uppercase letter that follows it, every run of whitespace and
\* underscores replaced by one dash, and all letters lowercased.
C23_DefaultIdIsKebabCase ==
    newOp = "new_step" =>
        /\ newId = KebabUpTo(newName, Len(newName))
        /\ newName = <<"M", "y", "A", "w", "e", "s", "o", "m", "e", "S", "t", "e", "p">> => Join(newId) = "my-awesome-step"
        /\ newName \in {<<"t", "e", "s", "t", "_", "s", "t", "e", "p">>,
                        <<"t", "e", "s", "t", " ", "s", "t", "e", "p">>,
                        <<"t", "e", "s", "t", "S", "t", "e", "p">>,
                        <<"T", "e", "s", "t", "S", "t", "e", "p">>} => Join(newId) = "test-step"

C23_Witness ==
    /\ newOp = "new_step"
    /\ newName = <<"M", "y", "A", "w", "e", "s", "o", "m", "e", "S", "t", "e", "p">>
    /\ Join(newId) = "my-awesome-step"

-----------------------------------------------------------------------------
(* Further properties of the registration loop, checked under Spec *)

RECURSIVE Sum(_)
Sum(s) == IF s = <<>> THEN 0 ELSE Head(s) + Sum(Tail(s))

\* C24: the k-th sleep of the loop, made after failed attempt k and before
\* attempt k + 1, is of k * 2 seconds; there are at most four (2, 4, 6, 8,
\* 20 s in all), none after the attempt that succeeds and none after the
\* fifth failure.
C24_LinearBackoff ==
    /\ \A k \in 1..Len(slept) : slept[k] = k * 2
    /\ Len(slept) <= 4
    /\ Sum(slept) <= 20
    /\ pc \in {"attempt", "fallback", "loopdone", "serving"} =>
          Len(slept) = attempt - 1
    /\ (pc = "raised" /\ raised # "StepValidationError") =>
          attempt = 5 /\ slept = <<2, 4, 6, 8>>
    /\ registered => Len(slept) = Cardinality(FailedAttempts)

C24_Witness ==
    /\ slept = <<2, 4, 6, 8>>
    /\ pc = "raised"
    /\ attempt = 5

-----------------------------------------------------------------------------
(* Properties of FlowBuilder, checked under SpecBuilder *)

\* C25 (as claimed): start() sends exactly one POST {base}/engine/flow with
\* body {id, goals, init} made of the builder's flow id, ordered goals and
\* initial state, and raises FlowError on a transport failure or on any
\* answer that is not 2xx.
C25_StartPostsOnceOrFlowError ==
    flowStart.done =>
        /\ Len(flowPosts) = 1
        /\ flowPosts[1].url = "http://localhost:8080/engine/flow"
        /\ flowPosts[1].body =
              [id |-> "flow-1",
               goals |-> FlowBuilderView(bs[flowStart.on], heap).goals,
               init |-> FlowBuilderView(bs[flowStart.on], heap).initial_state]
        /\ (flowStart.answer = 0 \/ flowStart.answer < 200
                \/ flowStart.answer >= 300) => flowStart.raised = "FlowError"

\* C26: with_goal(g) gives a builder whose goals are the receiver's goals
\* followed by g, with_goals(g1..gn) one whose goals are exactly g1..gn, and
\* a new flow builder has no goals; so the goals of any builder are the
\* replay, in order, of the calls that made it.
C26_GoalsAreTheReplay ==
    /\ (kind = "flow" => heap[bs[1].goals] = <<>>)
    /\ [][(lastOp' # lastOp /\ lastOp'.op \in {"with_goal", "with_goals"}) =>
            LET old == heap[bs[lastOp'.on].goals]
                new == heap'[bs'[lastOp'.result].goals]
            IN /\ lastOp'.op = "with_goal" =>
                     /\ Len(lastOp'.args) = 1
                     /\ new = old \o lastOp'.args
               /\ lastOp'.op = "with_goals" => new = lastOp'.args]_vars

C26_Witness ==
    /\ kind = "flow"
    /\ Len(bs) = 4
    /\ heap[bs[2].goals] = <<"s1">>
    /\ heap[bs[3].goals] = <<"s2", "s1">>
    /\ lastOp.op = "with_goal" /\ lastOp.on = 3
    /\ heap[bs[4].goals] = <<"s2", "s1", "s2">>

-----------------------------------------------------------------------------
(* Properties of the engine client, checked under SpecClient *)

\* C27 (as claimed): every call of register_step, update_step or list_steps
\* issues exactly one HTTP request, and when the answer is not 2xx it raises
\* ClientError with the status of the answer, or with no status after a
\* transport failure.
C27_OneRequestAndClientError ==
    /\ Len(requests) = Len(clientCalls)
    /\ \A i \in 1..Len(clientCalls) :
          LET c == clientCalls[i] IN
          /\ requests[i].call = i
          /\ (c.answer = 0 \/ c.answer < 200 \/ c.answer >= 300) =>
                /\ c.raised = "ClientError"
                /\ c.status_code = c.answer

\* The argument without its trailing slashes
WithoutTrailingSlashes(s) ==
    SubSeq(s, 1, CHOOSE n \in 0..Len(s) :
                    /\ n = 0 \/ s[n] # "/"
                    /\ \A k \in (n + 1)..Len(s) : s[k] = "/")

\* C30: the client's base URL is the argument without its trailing slashes
\* and, when that ends in "/engine", without this suffix; otherwise it is
\* the argument without its trailing slashes.  Every request goes to the
\* base URL followed by /engine/step.
C30_BaseUrlNormalized ==
    client.made =>
        LET t == WithoutTrailingSlashes(clientArg) IN
        /\ (\E k \in 0..Len(t) : SubSeq(t, 1, k) \o EngineSuffix = t)
              => client.base_url \o EngineSuffix = t
        /\ (\A k \in 0..Len(t) : SubSeq(t, 1, k) \o EngineSuffix # t)
              => client.base_url = t
        /\ \A i \in 1..Len(requests) :
              requests[i].url \in
                  {Join(client.base_url) \o "/engine/step",
                   Join(client.base_url) \o "/engine/step/" \o ClientStepId}

C30_Witness ==
    /\ client.made
    /\ clientArg = <<"h", "/", "e", "n", "g", "i", "n", "e", "/", "/">>
    /\ client.base_url = <<"h">>
    /\ Len(requests) = 2
    /\ requests[1].url = "h/engine/step"
    /\ requests[2].url = "h/engine/step/test-step"

-----------------------------------------------------------------------------
(* The wire form of a StepResult, checked under SpecWebhook *)

Values(body, key) == {p[2] : p \in {q \in body : q[1] = key}}

\* C29: the wire form of a result has the key success with the result's
\* flag; the key outputs exactly when the outputs are not empty, with the
\* outputs as they are; the key error exactly when the error is not empty,
\* with the error as it is; and no other key.
C29_WireFormOmitsEmpty ==
    \A i \in 1..Len(completions) :
        LET r == completions[i].result
            body == posts[i].body
        IN /\ Values(body, "success") = {JBool(r.success)}
           /\ Values(body, "outputs") =
                 (IF r.outputs = {} THEN {} ELSE {JMap(r.outputs)})
           /\ Values(body, "error") =
                 (IF r.error = "" THEN {} ELSE {JStr(r.error)})
           /\ \A p \in body : p[1] \in {"success", "outputs", "error"}

C29_Witness ==
    /\ Len(completions) = 2
    /\ completions[1].result =
          [success |-> FALSE,
           outputs |-> {<<"result", "done">>, <<"count", "2">>}, error |-> "x"]
    /\ Cardinality(posts[1].body) = 3
    /\ completions[2].result = [success |-> TRUE, outputs |-> {}, error |-> ""]
    /\ posts[2].body = {<<"success", JBool(TRUE)>>}

-----------------------------------------------------------------------------
(* Concurrent requests, checked under SpecWorkers *)

\* What handle_step does with the body alone, the server's handler being
\* called with the context and arguments that body gives
Alone(body) ==
    LET probe == handle_step(body, NotInvoked, srv.lenient, srv.step_id)
        h == IF probe.invoked THEN Handler(srv.handler, probe.ctx, probe.args)
                              ELSE NotInvoked
    IN handle_step(body, h, srv.lenient, srv.step_id)

\* The metadata and flow id a worker holds come from its own request
OwnContext(w) ==
    LET metadata == GetOrEmpty(w.body.metadata).m IN
    /\ w.ctx.metadata = metadata
    /\ w.ctx.flow_id = MapGet(metadata, "flow_id", "")
    /\ w.ctx.step_id = srv.step_id
    /\ w.arguments = GetOrEmpty(w.body.arguments)

\* C28: under every interleaving of the workers, the context and arguments
\* a worker holds and hands to the handler come from its own request's
\* body, and its response is the one that body gets when handled alone.
C28_WorkersAreIndependent ==
    \A t \in DOMAIN workers :
        LET w == workers[t] IN
        /\ w.pc \in {"ready", "invoked", "done"} /\ w.ctx # NoCtx
              => OwnContext(w)
        /\ w.invoked => w.seenCtx = w.ctx /\ w.seenArgs = w.arguments
        /\ w.pc = "done" =>
              /\ w.resp = Alone(w.body).resp
              /\ w.invoked = Alone(w.body).invoked
              /\ w.invoked => /\ w.seenCtx = Alone(w.body).ctx
                              /\ w.seenArgs = Alone(w.body).args

\* Two workers answered interleaved requests of different flows
C28_Witness ==
    /\ srv.handler = "echo"
    /\ DOMAIN workers = Workers
    /\ workers[1].pc = "done" /\ workers[2].pc = "invoked"
    /\ latest = 2
    /\ workers[1].seenCtx.flow_id = "flow-1"
    /\ workers[2].seenCtx.flow_id = "flow-2"
    /\ workers[1].resp.status = 200
    /\ workers[1].seenArgs # workers[2].seenArgs

-----------------------------------------------------------------------------
(* The order of the engine calls of the registration loop, checked under    *)
(* Spec                                                                     *)

\* C31: for a builder not marked for update, every update_step call comes
\* directly after a register_step call of the same attempt that failed
\* with 409; a register_step call that failed otherwise (another status,
\* no status) is not followed by an update: what follows it is the
\* register_step call of the next attempt, or, after the last attempt, the
\* raise.
C31_UpdateOnlyAfterConflict ==
    ~builder.dirty =>
      \A i \in CallIdx :
        /\ calls[i].op = "update" =>
              /\ i > 1
              /\ IsConflict(calls[i - 1])
              /\ calls[i - 1].attempt = calls[i].attempt
        /\ (calls[i].op = "register" /\ ~calls[i].outcome.ok
               /\ ~IsConflict(calls[i])) =>
              /\ i < Len(calls) =>
                    /\ calls[i + 1].op = "register"
                    /\ calls[i + 1].attempt = calls[i].attempt + 1
              /\ i = Len(calls) =>
                    \/ pc = "attempt" /\ attempt = calls[i].attempt + 1
                    \/ /\ pc = "raised"
                       /\ calls[i].attempt = MAX_REGISTRATION_ATTEMPTS

C31_Witness ==
    /\ ~builder.dirty
    /\ Len(calls) = 4
    /\ calls[1].op = "register" /\ calls[1].outcome = ServerError
    /\ calls[2].op = "register" /\ calls[2].outcome = TransportError
    /\ calls[3].op = "register" /\ calls[3].outcome = Conflict
    /\ calls[4].op = "update" /\ calls[4].attempt = 3

CallsOf(op) == {i \in CallIdx : calls[i].op = op}

\* C32: a register_step that got 409 and the failed update_step after it
\* are one failed attempt: both carry the same attempt number, one sleep
\* is made for them, and the call after them is the register_step of the
\* next attempt (after the fifth attempt, the raise).  A run makes at most
\* 5 register_step and at most 5 update_step calls.
C32_FailedFallbackIsOneAttempt ==
    /\ \A i \in CallIdx :
          (IsConflict(calls[i]) /\ i < Len(calls) /\ ~calls[i + 1].outcome.ok) =>
             LET a == calls[i].attempt IN
             /\ calls[i + 1].op = "update"
             /\ calls[i + 1].attempt = a
             /\ i + 1 < Len(calls) =>
                   /\ calls[i + 2].op = "register"
                   /\ calls[i + 2].attempt = a + 1
                   /\ Len(slept) >= a
             /\ i + 1 = Len(calls) =>
                   \/ pc = "attempt" /\ attempt = a + 1 /\ Len(slept) = a
                   \/ /\ pc = "raised"
                      /\ a = MAX_REGISTRATION_ATTEMPTS
                      /\ Len(slept) = a - 1
    /\ Cardinality(CallsOf("register")) <= MAX_REGISTRATION_ATTEMPTS
    /\ Cardinality(CallsOf("update")) <= MAX_REGISTRATION_ATTEMPTS

\* Five conflicts, each followed by a failed update: ten calls, then the
\* raise
C32_Witness ==
    /\ pc = "raised"
    /\ Len(calls) = 10
    /\ Cardinality(CallsOf("register")) = 5
    /\ Cardinality(CallsOf("update")) = 5
    /\ \A i \in CallsOf("register") : IsConflict(calls[i])
    /\ slept = <<2, 4, 6, 8>>

Succeeded == \E i \in CallIdx : calls[i].outcome.ok

\* C33: the registration succeeds at most once per start: a call that
\* succeeded is the last engine call, the loop is left with registered
\* set and nothing raised, and from then on no register_step or
\* update_step call and no sleep is made; the only step left is the
\* start of the server.
C33_OneSuccessEndsTheProtocol ==
    /\ Succeeded =>
          /\ Cardinality({i \in CallIdx : calls[i].outcome.ok}) = 1
          /\ calls[Len(calls)].outcome.ok
          /\ registered
          /\ raised = ""
          /\ pc \in {"loopdone", "serving"}
    /\ [][Succeeded => /\ calls' = calls
                       /\ slept' = slept
                       /\ pc = "loopdone" /\ pc' = "serving"]_vars

C33_Witness ==
    /\ pc = "serving"
    /\ Len(calls) = 3
    /\ ~calls[1].outcome.ok /\ ~calls[2].outcome.ok /\ calls[3].outcome.ok
    /\ slept = <<2, 4>>

-----------------------------------------------------------------------------
(* The Step submitted by create_step_server, checked under Spec *)

\* host:port of the step server, as the environment gives it: STEP_PORT
\* names a port number, 08081 is port 8081
Authority ==
    CASE env = {} -> "localhost:8081"
      [] <<"STEP_HOSTNAME", "step.example.com">> \in env -> "step.example.com:9000"
      [] OTHER -> "localhost:8081"

\* C34: the Step submitted to the engine has the endpoint
\* http://host:port/{id} and the health check http://host:port/health,
\* with host and port from STEP_HOSTNAME and STEP_PORT and id the id of the
\* submitted Step; the POST route of the server is /{id}; an endpoint or
\* health check the caller had set is overwritten, a timeout is kept.
C34_SubmittedEndpoints ==
    /\ calls # <<>> =>
          /\ step.id = builder.id
          /\ step.http.set
          /\ step.http.endpoint = "http://" \o Authority \o "/" \o step.id
          /\ step.http.health_check = "http://" \o Authority \o "/health"
          /\ step.http.timeout =
                (IF builder.http.set THEN builder.http.timeout ELSE 0)
    /\ pc = "serving" => Route(builder) = "/" \o step.id

\* A builder with an endpoint, a health check and a timeout of its own,
\* started with both environment variables set
C34_Witness ==
    /\ pc = "serving"
    /\ builder.http = [set |-> TRUE, endpoint |-> "http://host/step",
                       health_check |-> "http://host/hc", timeout |-> 30]
    /\ step.http = [set |-> TRUE,
                    endpoint |-> "http://step.example.com:9000/test-step",
                    health_check |-> "http://step.example.com:9000/health",
                    timeout |-> 30]

\* C35: start() on a builder of type script or flow fails with a
\* StepValidationError: no engine call is made, nothing is slept, and the
\* server is never started.
C35_OnlyHTTPStepsStart ==
    builder.type \in {"script", "flow"} =>
        /\ calls = <<>>
        /\ slept = <<>>
        /\ ~registered
        /\ pc \in {"start", "raised"}
        /\ pc = "raised" => raised = "StepValidationError"

\* A script builder that build() alone accepts is refused by start()
C35_Witness ==
    /\ builder.type = "script"
    /\ _validate_step(AssembleStep(builder)) = ""
    /\ pc = "raised"
    /\ raised = "StepValidationError"
    /\ step.http.set

-----------------------------------------------------------------------------
(* The mode configurations of a StepBuilder, checked under SpecBuilder *)

\* What build() gives for the k-th builder
BuildOf(k) == build(StepBuilderView(bs[k], heap))

\* C36: no mutator clears a mode configuration: the builder a mutator
\* returns has every configuration (HTTP, script, flow) the builder it was
\* called on had, and with_sync_execution / with_async_execution change
\* the type alone.  So a builder with an HTTP configuration never builds
\* a script or flow Step, and one with a script or flow configuration
\* never builds a sync or async Step.
C36_ModeConfigIsNeverCleared ==
    /\ kind = "step" =>
          \A k \in 1..Len(bs) :
             BuildOf(k).error = "" =>
                /\ bs[k].http.set => BuildOf(k).step.type \in {"sync", "async"}
                /\ bs[k].script.set => BuildOf(k).step.type = "script"
                /\ bs[k].flow.set => BuildOf(k).step.type = "flow"
    /\ [][(kind = "step" /\ Len(bs') = Len(bs) + 1) =>
             LET old == bs[lastOp'.on]
                 new == bs'[Len(bs')]
             IN /\ old.http.set => new.http.set
                /\ old.script.set => new.script.set
                /\ old.flow.set => new.flow.set
                /\ lastOp'.op = "with_sync_execution" =>
                      new = [old EXCEPT !.type = "sync"]
                /\ lastOp'.op = "with_async_execution" =>
                      new = [old EXCEPT !.type = "async"]]_vars

\* with_script, with_sync_execution, with_endpoint: a sync builder that
\* still carries the script, and build() refuses it
C36_Witness ==
    /\ kind = "step"
    /\ Len(bs) = 4
    /\ bs[2].script.set /\ bs[2].type = "script"
    /\ bs[3].script.set /\ bs[3].type = "sync"
    /\ bs[4].script.set /\ bs[4].type = "sync" /\ bs[4].http.endpoint # ""
    /\ built.done /\ lastOp.on = 4
    /\ built.error = "Script config not allowed for HTTP steps"

-----------------------------------------------------------------------------
(* The wire round trip of a Step, checked under SpecWire *)

\* C38 (as claimed): for every Step that passes validation, parsing its
\* wire form gives back an equal Step: _parse_step(step.to_dict()) = step.
C38_WireRoundTrip ==
    wirePc = "parsed" => wireParsed = wireStep

-----------------------------------------------------------------------------
(* Repeated completions on one AsyncContext, checked under SpecWebhook *)

\* C39: an AsyncContext keeps no completion state.  k completion calls
\* issue k POSTs, the i-th POST by the i-th call; every call, whatever
\* came before it (an accepted completion, a WebhookError), adds one POST
\* with its own result and changes nothing else, and it raises or returns
\* by the answer to its own POST alone.
C39_NoCompletionState ==
    /\ Len(posts) = Len(completions)
    /\ \A i \in 1..Len(completions) :
          /\ posts[i].call = i
          /\ completions[i].posts = 1
          /\ completions[i].raised =
                (IF completions[i].answer = 0
                      \/ raise_for_status(completions[i].answer)
                   THEN "WebhookError" ELSE "")
    /\ [][completions' # completions =>
             /\ Len(completions') = Len(completions) + 1
             /\ SubSeq(completions', 1, Len(completions)) = completions
             /\ Len(posts') = Len(posts) + 1
             /\ SubSeq(posts', 1, Len(posts)) = posts
             /\ posts'[Len(posts')].body =
                   to_dict(completions'[Len(completions')].result)
             /\ actx' = actx]_vars

\* The same result completed twice: the first call raised WebhookError,
\* the second was posted again and accepted
C39_Witness ==
    /\ Len(completions) = 2
    /\ completions[1].raised = "WebhookError"
    /\ completions[2].raised = ""
    /\ completions[1].prim = "success" /\ completions[2].prim = "success"
    /\ completions[1].result = completions[2].result
    /\ Len(posts) = 2
    /\ posts[1].body = posts[2].body

-----------------------------------------------------------------------------
(* Missing keys of the request body, checked under SpecServer *)

\* The last request was a JSON object whose arguments and metadata, where
\* present, are mappings
ObjectRequest ==
    /\ served > 0
    /\ last.body.kind = "object"
    /\ last.body.arguments.p \in {"absent", "map"}
    /\ last.body.metadata.p \in {"absent", "map"}

DefaultsApplied ==
    /\ last.invoked
    /\ last.args = [p |-> "map", m |-> last.body.arguments.m]
    /\ last.ctx.metadata = last.body.metadata.m
    /\ last.ctx.flow_id =
          (IF \E q \in last.body.metadata.m : q[1] = "flow_id"
             THEN (CHOOSE q \in last.body.metadata.m : q[1] = "flow_id")[2]
             ELSE "")
    /\ last.ctx.step_id = step.id

\* C40 (as claimed): for every request body that is a JSON object, the
\* empty object {} included, a missing arguments or metadata key counts as
\* an empty mapping and a missing metadata.flow_id as the empty flow id,
\* and the handler is invoked.
C40_MissingKeysDefaulted ==
    ObjectRequest => DefaultsApplied

====
